---- MODULE Spec2Model ----
(***************************************************************************)
(* A model of vanilla-form-validator: the FormValidator class              *)
(* (src/src/vanilla-form-validator.ts), the deepMerge utility and the      *)
(* predicate helpers that the class imports.                               *)
(*                                                                         *)
(* JavaScript values are tagged records.  A string is a sequence of        *)
(* pieces: message templates are cut at their placeholders, field values   *)
(* and attribute values are cut into characters, identifiers are one       *)
(* piece.  String concatenation is \o, the empty string is <<>>.           *)
(***************************************************************************)
EXTENDS Integers, Sequences, FiniteSets, TLC

(***************************************************************************)
(* JavaScript values                                                       *)
(***************************************************************************)
Undef == [t |-> "undefined"]
Null == [t |-> "null"]
Str(s) == [t |-> "string", v |-> s]
Bool(b) == [t |-> "boolean", v |-> b]
Num(n) == [t |-> "number", v |-> n]
Fn(name) == [t |-> "function", v |-> name]
Obj(f) == [t |-> "object", arr |-> FALSE, f |-> f]
Arr(f) == [t |-> "object", arr |-> TRUE, f |-> f]
EmptyMap == [k \in {} |-> Null]

\* typeof v === "object" && v !== null
IsObject(v) == v.t = "object"

\* o[k]: a missing key, and any key of a primitive, reads as undefined
Get(o, k) == IF IsObject(o) /\ k \in DOMAIN o.f THEN o.f[k] ELSE Undef

\* Object.keys(o)
Keys(o) == IF IsObject(o) THEN DOMAIN o.f ELSE {}

\* JavaScript truthiness, as used by `if (x)` and `x ? a : b`
Truthy(v) ==
    CASE v.t = "undefined" -> FALSE
      [] v.t = "null" -> FALSE
      [] v.t = "boolean" -> v.v
      [] v.t = "number" -> v.v # 0
      [] v.t = "string" -> v.v # <<>>
      [] v.t = "nan" -> FALSE
      [] OTHER -> TRUE

\* Op applied to the value of arg: arg is evaluated once, before Op
Bind(Op(_), arg) == CHOOSE r \in {Op(x) : x \in {arg}} : TRUE

(***************************************************************************)
(* deepMerge (utils.ts), on values without shared or cyclic sub-objects:   *)
(* every object of the override is then met once, and the `seen` map is    *)
(* never hit.                                                              *)
(***************************************************************************)
RECURSIVE clone(_)
clone(value) ==
    IF ~IsObject(value) THEN value
    ELSE [t |-> "object", arr |-> value.arr,
          f |-> [k \in DOMAIN value.f |-> clone(value.f[k])]]

RECURSIVE merge(_, _)
merge(a, b) ==
    IF ~IsObject(b) THEN b
    ELSE IF ~IsObject(a) THEN clone(b)
    ELSE [t |-> "object", arr |-> b.arr,
          f |-> [key \in Keys(a) \cup Keys(b) |->
                    IF Get(b, key) = Undef
                    THEN clone(Get(a, key))
                    ELSE merge(Get(a, key), Get(b, key))]]

deepMerge(obj1, obj2) == merge(obj1, obj2)

(***************************************************************************)
(* deepMerge on a heap: an object is a cell of the heap and a value that   *)
(* holds it is a reference to the cell, so that one object can be reached  *)
(* under several keys and can reach itself.  A cell keeps its own keys in  *)
(* insertion order.  The keys are names that Object.prototype does not     *)
(* define, and an array has no holes.                                      *)
(***************************************************************************)
Ref(n) == [t |-> "ref", a |-> n]
IsRef(v) == v.t = "ref"

\* {} or []
Cell(arr) == [arr |-> arr, ks |-> <<>>, f |-> EmptyMap]

\* o[key] in heap h
GetH(h, o, key) == IF key \in DOMAIN h[o.a].f THEN h[o.a].f[key] ELSE Undef

\* cell[key] = v
SetKey(cell, key, v) ==
    [arr |-> cell.arr,
     ks |-> IF key \in DOMAIN cell.f THEN cell.ks ELSE Append(cell.ks, key),
     f |-> [k \in DOMAIN cell.f \cup {key} |-> IF k = key THEN v ELSE cell.f[k]]]

\* new Set([...Object.keys(a), ...Object.keys(b)]), in iteration order
MergedKeys(h, a, b) ==
    LET New(k) == k \notin DOMAIN h[a.a].f
    IN h[a.a].ks \o SelectSeq(h[b.a].ks, New)

\* the result of a call: the heap and the `seen` map after it, whether it
\* returned (ok) or the recursion exhausted the stack, and the value
Ret(st, v) == [st |-> st, v |-> v]

\* clone(value), called while the clones of the objects of `path` are
\* being built: no step of clone looks at what it has cloned, so meeting
\* an object of `path` again starts a recursion that never returns
\* (RangeError: Maximum call stack size exceeded)
RECURSIVE cloneHeap(_, _, _)
RECURSIVE cloneKeys(_, _, _, _, _)
cloneHeap(st, value, path) ==
    IF ~st.ok \/ ~IsRef(value) THEN Ret(st, value)
    ELSE IF value.a \in path THEN Ret([st EXCEPT !.ok = FALSE], Undef)
    ELSE LET obj == Len(st.h) + 1
             made == [st EXCEPT !.h = Append(@, Cell(st.h[value.a].arr))]
         IN Ret(cloneKeys(made, value, obj, st.h[value.a].ks, path \cup {value.a}),
                Ref(obj))

\* for (const k in value) obj[k] = clone(value[k]); value.map(clone)
cloneKeys(st, value, obj, ks, path) ==
    IF ks = <<>> \/ ~st.ok THEN st
    ELSE LET k == Head(ks)
             Store(r) == cloneKeys([r.st EXCEPT !.h[obj] = SetKey(@, k, r.v)],
                                   value, obj, Tail(ks), path)
         IN Bind(Store, cloneHeap(st, GetH(st.h, value, k), path))

\* const result = Array.isArray(b) ? [] : {}
ResultCellPlain(h, b) == Cell(FALSE)

ResultCell(h, b) == Cell(h[b.a].arr)

RECURSIVE mergeHeap(_, _, _)
RECURSIVE mergeKeys(_, _, _, _, _)
mergeHeap(st, a, b) ==
    IF ~st.ok \/ ~IsRef(b) THEN Ret(st, b)
    ELSE IF ~IsRef(a) THEN cloneHeap(st, b, {})
    ELSE IF b.a \in DOMAIN st.seen THEN Ret(st, Ref(st.seen[b.a]))
    ELSE LET result == Len(st.h) + 1
             made == [h |-> Append(st.h, ResultCell(st.h, b)),
                      seen |-> (b.a :> result) @@ st.seen,
                      ok |-> TRUE]
         IN Ret(mergeKeys(made, a, b, result, MergedKeys(st.h, a, b)), Ref(result))

\* for (const key of keys) { ... }
mergeKeys(st, a, b, result, keys) ==
    IF keys = <<>> \/ ~st.ok THEN st
    ELSE LET key == Head(keys)
             valA == GetH(st.h, a, key)
             valB == GetH(st.h, b, key)
             Store(r) == mergeKeys([r.st EXCEPT !.h[result] = SetKey(@, key, r.v)],
                                   a, b, result, Tail(keys))
         IN Bind(Store, IF valB = Undef THEN cloneHeap(st, valA, {})
                        ELSE mergeHeap(st, valA, valB))

\* deepMerge(obj1, obj2) with the objects of heap h
deepMergeHeap(h, obj1, obj2) ==
    mergeHeap([h |-> h, seen |-> EmptyMap, ok |-> TRUE], obj1, obj2)

\* some object that v reaches holds itself
RECURSIVE Cyclic(_, _, _)
Cyclic(h, v, path) ==
    /\ IsRef(v)
    /\ \/ v.a \in path
       \/ \E k \in DOMAIN h[v.a].f : Cyclic(h, h[v.a].f[k], path \cup {v.a})

\* the objects that v reaches
RECURSIVE Reach(_, _, _)
Reach(h, vs, found) ==
    LET new == {v.a : v \in {x \in vs : IsRef(x)}} \ found
    IN IF new = {} THEN found
       ELSE Reach(h, UNION {{h[n].f[k] : k \in DOMAIN h[n].f} : n \in new}, found \cup new)

\* the value that v stands for, written out as a tree (v reaches no cycle)
RECURSIVE Unfold(_, _)
Unfold(h, v) ==
    IF ~IsRef(v) THEN v
    ELSE [t |-> "object", arr |-> h[v.a].arr,
          f |-> [k \in DOMAIN h[v.a].f |-> Unfold(h, h[v.a].f[k])]]

(***************************************************************************)
(* The default message catalog (field initialiser of FormValidator)        *)
(***************************************************************************)
MessageKeys ==
    {"required", "remote", "email", "url", "date", "number", "phone", "file",
     "equalTo", "maxlength", "minlength", "rangelength", "max", "min",
     "range", "regExp"}

DefaultMessages ==
    Obj([required |-> Str(<<"This field is required.">>),
         remote |-> Str(<<"Please fix this field.">>),
         email |-> Str(<<"Please enter a valid email address.">>),
         url |-> Str(<<"Please enter a valid URL.">>),
         date |-> Str(<<"Please enter a valid date.">>),
         number |-> Str(<<"Please enter a valid number.">>),
         phone |-> Str(<<"Please enter a valid phone.">>),
         file |-> Str(<<"Please select a file.">>),
         equalTo |-> Str(<<"Please enter the same value again.">>),
         maxlength |-> Str(<<"Please enter no more than ", "{0}", " characters.">>),
         minlength |-> Str(<<"Please enter at least ", "{0}", " characters.">>),
         rangelength |-> Str(<<"Please enter a value between ", "{0}", " and ", "{1}", " characters long">>),
         max |-> Str(<<"Please enter a value than ", "{0}", ".">>),
         min |-> Str(<<"Please enter a value at least ", "{0}", ".">>),
         range |-> Str(<<"Please enter a value between ", "{0}", " and ", "{1}">>),
         regExp |-> Str(<<"Please enter a value matching the requested format.">>)])

\* the first argument of the constructor's deepMerge call
DefaultSettings(msgs) ==
    Obj([ignore |-> Null,
         fields |-> Null,
         autoValidate |-> Bool(TRUE),
         errorPlacement |-> Null,
         errorElement |-> Str(<<"p">>),
         errorClass |-> Str(<<"error">>),
         errorFieldClass |-> Null,
         validFormClass |-> Str(<<"was-validated">>),
         submitHandler |-> Null,
         messages |-> msgs])

\* this.settings = deepMerge({...defaults}, settings)
EffectiveSettings(msgs, arg) == deepMerge(DefaultSettings(msgs), arg)

\* this.messages = deepMerge(this.settings.messages, this.messages)
ConstructedMessages(s, msgs) == deepMerge(Get(s, "messages"), msgs)

\* a load that replaces the catalog by the loaded object
LoadedMessagesReplace(data, msgs) == Get(data, "messages")

\* this.messages = deepMerge(data.messages, this.messages)
LoadedMessages(data, msgs) == deepMerge(Get(data, "messages"), msgs)

(***************************************************************************)
(* Strings                                                                 *)
(***************************************************************************)
Digits == {"0", "1", "2", "3", "4", "5", "6", "7", "8", "9"}
Lower == {"a", "b", "c", "d", "e", "f", "g", "h", "i", "j", "k", "l", "m",
          "n", "o", "p", "q", "r", "s", "t", "u", "v", "w", "x", "y", "z"}
Upper == {"A", "B", "C", "D", "E", "F", "G", "H", "I", "J", "K", "L", "M",
          "N", "O", "P", "Q", "R", "S", "T", "U", "V", "W", "X", "Y", "Z"}
Alnum == Lower \cup Upper \cup Digits
Spaces == {" "}

DigitValue(ch) ==
    CASE ch = "0" -> 0 [] ch = "1" -> 1 [] ch = "2" -> 2 [] ch = "3" -> 3
      [] ch = "4" -> 4 [] ch = "5" -> 5 [] ch = "6" -> 6 [] ch = "7" -> 7
      [] ch = "8" -> 8 [] ch = "9" -> 9

DigitChar(d) == <<"0", "1", "2", "3", "4", "5", "6", "7", "8", "9">>[d + 1]

\* the value of a string of decimal digits
RECURSIVE DigitsToNat(_)
DigitsToNat(s) ==
    IF s = <<>> THEN 0
    ELSE 10 * DigitsToNat(SubSeq(s, 1, Len(s) - 1)) + DigitValue(s[Len(s)])

\* Number.prototype.toString of a non-negative integer
RECURSIVE NatToString(_)
NatToString(n) ==
    IF n < 10 THEN <<DigitChar(n)>>
    ELSE NatToString(n \div 10) \o <<DigitChar(n % 10)>>

NaN == [t |-> "nan"]

\* the length of the longest prefix of s made of decimal digits
RECURSIVE DigitPrefix(_)
DigitPrefix(s) ==
    IF s # <<>> /\ s[1] \in Digits THEN 1 + DigitPrefix(Tail(s)) ELSE 0

RECURSIVE TrimLeft(_)
TrimLeft(s) == IF s # <<>> /\ s[1] \in Spaces THEN TrimLeft(Tail(s)) ELSE s

\* parseInt(s): leading white space, an optional sign, then the longest run
\* of digits; NaN when there is no digit
parseInt(s) ==
    LET u == TrimLeft(s)
        neg == u # <<>> /\ u[1] = "-"
        w == IF u # <<>> /\ u[1] \in {"-", "+"} THEN Tail(u) ELSE u
        n == DigitPrefix(w)
    IN IF n = 0 THEN NaN
       ELSE Num((IF neg THEN -1 ELSE 1) * DigitsToNat(SubSeq(w, 1, n)))

\* x >= y and x <= y on JavaScript numbers: false when either is NaN
NumGE(x, y) == x.t = "number" /\ y.t = "number" /\ x.v >= y.v
NumLE(x, y) == x.t = "number" /\ y.t = "number" /\ x.v <= y.v

\* String.prototype.replace with a string pattern: the first occurrence only
ReplaceFirst(s, ph, by) ==
    IF \E i \in 1..Len(s) : s[i] = ph
    THEN LET i == CHOOSE k \in 1..Len(s) :
                      s[k] = ph /\ \A j \in 1..(k - 1) : s[j] # ph
         IN SubSeq(s, 1, i - 1) \o by \o SubSeq(s, i + 1, Len(s))
    ELSE s

Replace(v, ph, by) == Str(ReplaceFirst(v.v, ph, by))

(***************************************************************************)
(* Predicate library (isHelper.ts)                                         *)
(***************************************************************************)
\* a required check that accepts every value
notEmptyAlways(value) == TRUE

notEmpty(value) == Len(value) > 0

validDigits(value) == Len(value) > 0 /\ \A i \in 1..Len(value) : value[i] \in Digits

\* validEmail: one or more local-part characters, an at sign, then labels
\* separated by dots; a label is 1 to 63 letters, digits and hyphens that
\* starts and ends with a letter or digit (the grave accent, also a
\* local-part character, is in no value of the model)
EmailLocalChars ==
    Alnum \cup {".", "!", "#", "$", "%", "&", "'", "*", "+", "/", "=", "?",
                "^", "_", "{", "|", "}", "~", "-"}

\* the pieces of s between the occurrences of sep, in order
RECURSIVE Split(_, _)
Split(s, sep) ==
    IF \E i \in 1..Len(s) : s[i] = sep
    THEN LET i == CHOOSE k \in 1..Len(s) :
                      s[k] = sep /\ \A j \in 1..(k - 1) : s[j] # sep
         IN <<SubSeq(s, 1, i - 1)>> \o Split(SubSeq(s, i + 1, Len(s)), sep)
    ELSE <<s>>

EmailLabel(l) ==
    /\ Len(l) >= 1 /\ Len(l) <= 63
    /\ l[1] \in Alnum /\ l[Len(l)] \in Alnum
    /\ \A i \in 1..Len(l) : l[i] \in Alnum \cup {"-"}

validEmail(value) ==
    \E p \in 1..Len(value) :
        /\ value[p] = "@"
        /\ p > 1
        /\ \A i \in 1..(p - 1) : value[i] \in EmailLocalChars
        /\ LET labels == Split(SubSeq(value, p + 1, Len(value)), ".")
           IN \A k \in 1..Len(labels) : EmailLabel(labels[k])

\* validPhone: up to 2 spaces, an optional plus sign, 6 to 20 digits and
\* spaces, up to 2 spaces
validPhone(value) ==
    \E a \in 0..2, plus \in 0..1, b \in 0..2 :
        LET n == Len(value) - a - plus - b
        IN /\ n >= 6 /\ n <= 20
           /\ \A i \in 1..a : value[i] \in Spaces
           /\ plus = 1 => value[a + 1] = "+"
           /\ \A i \in (a + plus + 1)..(a + plus + n) : value[i] \in Spaces \cup Digits
           /\ \A i \in (a + plus + n + 1)..Len(value) : value[i] \in Spaces

\* validUrl: the scheme, optional user information, an IPv4 literal outside
\* the private ranges or a host name with a top-level domain, an optional
\* port, an optional path; the expression carries the i flag
UrlSchemes ==
    {<<"h", "t", "t", "p">>, <<"h", "t", "t", "p", "s">>, <<"f", "t", "p">>}

ToLower(ch) ==
    IF ch \in Upper
    THEN CHOOSE l \in Lower :
             \E i \in 1..26 :
                 /\ <<"A", "B", "C", "D", "E", "F", "G", "H", "I", "J", "K", "L", "M",
                      "N", "O", "P", "Q", "R", "S", "T", "U", "V", "W", "X", "Y", "Z">>[i] = ch
                 /\ <<"a", "b", "c", "d", "e", "f", "g", "h", "i", "j", "k", "l", "m",
                      "n", "o", "p", "q", "r", "s", "t", "u", "v", "w", "x", "y", "z">>[i] = l
    ELSE ch

LowerCase(s) == [i \in 1..Len(s) |-> ToLower(s[i])]

NoSpace(s) == \A i \in 1..Len(s) : s[i] \notin Spaces

AllDigits(s) == \A i \in 1..Len(s) : s[i] \in Digits

\* first octet: 1 to 223, no leading zero
IpFirst(o) ==
    /\ AllDigits(o) /\ Len(o) >= 1 /\ Len(o) <= 3
    /\ \/ Len(o) \in {1, 2} /\ o[1] # "0"
       \/ Len(o) = 3 /\ o[1] = "1"
       \/ Len(o) = 3 /\ o[1] = "2" /\ o[2] \in {"0", "1"}
       \/ Len(o) = 3 /\ o[1] = "2" /\ o[2] = "2" /\ o[3] \in {"0", "1", "2", "3"}

\* middle octets: one or two digits, or 100 to 255
IpMiddle(o) ==
    /\ AllDigits(o) /\ Len(o) >= 1 /\ Len(o) <= 3
    /\ \/ Len(o) \in {1, 2}
       \/ Len(o) = 3 /\ o[1] = "1"
       \/ Len(o) = 3 /\ o[1] = "2" /\ o[2] \in {"0", "1", "2", "3", "4"}
       \/ Len(o) = 3 /\ o[1] = "2" /\ o[2] = "5" /\ o[3] \in {"0", "1", "2", "3", "4", "5"}

\* last octet: 1 to 254, no leading zero
IpLast(o) ==
    /\ AllDigits(o) /\ Len(o) >= 1 /\ Len(o) <= 3
    /\ \/ Len(o) \in {1, 2} /\ o[1] # "0"
       \/ Len(o) = 3 /\ o[1] = "1"
       \/ Len(o) = 3 /\ o[1] = "2" /\ o[2] \in {"0", "1", "2", "3", "4"}
       \/ Len(o) = 3 /\ o[1] = "2" /\ o[2] = "5" /\ o[3] \in {"0", "1", "2", "3", "4"}

\* the three negative lookaheads: 10/8, 127/8, 169.254/16, 192.168/16, 172.16/12
IpPrivate(o) ==
    \/ o[1] \in {<<"1", "0">>, <<"1", "2", "7">>}
    \/ o[1] = <<"1", "6", "9">> /\ o[2] = <<"2", "5", "4">>
    \/ o[1] = <<"1", "9", "2">> /\ o[2] = <<"1", "6", "8">>
    \/ /\ o[1] = <<"1", "7", "2">>
       /\ Len(o[2]) = 2
       /\ \/ o[2][1] = "1" /\ o[2][2] \in {"6", "7", "8", "9"}
          \/ o[2][1] = "2"
          \/ o[2][1] = "3" /\ o[2][2] \in {"0", "1"}

UrlIp(h) ==
    LET o == Split(h, ".")
    IN /\ Len(o) = 4
       /\ IpFirst(o[1]) /\ IpMiddle(o[2]) /\ IpMiddle(o[3]) /\ IpLast(o[4])
       /\ ~IpPrivate(o)

\* a host label: letters, digits and hyphens, starting and ending with a
\* letter or digit
UrlLabel(l) ==
    /\ Len(l) >= 1
    /\ l[1] \in Lower \cup Digits /\ l[Len(l)] \in Lower \cup Digits
    /\ \A i \in 1..Len(l) : l[i] \in Lower \cup Digits \cup {"-"}

\* labels separated by dots, then a top-level domain of two or more letters
\* and an optional final dot
UrlHostName(h) ==
    LET g == IF h # <<>> /\ h[Len(h)] = "." THEN SubSeq(h, 1, Len(h) - 1) ELSE h
        l == Split(g, ".")
    IN /\ Len(l) >= 2
       /\ \A k \in 1..(Len(l) - 1) : UrlLabel(l[k])
       /\ Len(l[Len(l)]) >= 2
       /\ \A i \in 1..Len(l[Len(l)]) : l[Len(l)][i] \in Lower

\* an optional port of 2 to 5 digits, then an optional path, query or
\* fragment without white space
UrlPortPath(t) ==
    \E p \in {0} \cup 3..6 :
        /\ p <= Len(t)
        /\ p > 0 => t[1] = ":" /\ AllDigits(SubSeq(t, 2, p))
        /\ LET u == SubSeq(t, p + 1, Len(t))
           IN u = <<>> \/ (u[1] \in {"/", "?", "#"} /\ NoSpace(u))

UrlHostPortPath(r) ==
    \E h \in 1..Len(r) :
        /\ UrlIp(SubSeq(r, 1, h)) \/ UrlHostName(SubSeq(r, 1, h))
        /\ UrlPortPath(SubSeq(r, h + 1, Len(r)))

validUrl(value) ==
    LET v == LowerCase(value)
    IN \E sch \in UrlSchemes :
        LET n == Len(sch) + 3
        IN /\ Len(v) > n
           /\ SubSeq(v, 1, n) = sch \o <<":", "/", "/">>
           /\ LET r == SubSeq(v, n + 1, Len(v))
              IN \/ UrlHostPortPath(r)
                 \/ \E k \in 2..Len(r) :
                        /\ r[k] = "@"
                        /\ NoSpace(SubSeq(r, 1, k - 1))
                        /\ UrlHostPortPath(SubSeq(r, k + 1, Len(r)))

(***************************************************************************)
(* Form controls.  A field is a record: node (the lower-case element       *)
(* name), type, id, name, attrs (the content attributes that are present,  *)
(* by name), value, checked, files (the number of attached files),         *)
(* selected (the number of selected options) and classes (its class list). *)
(***************************************************************************)
hasAttribute(field, a) == a \in DOMAIN field.attrs

getAttribute(field, a) == IF hasAttribute(field, a) THEN Str(field.attrs[a]) ELSE Null

\* field.pattern: the reflected attribute, '' when absent
PatternOf(field) == IF hasAttribute(field, "pattern") THEN field.attrs["pattern"] ELSE <<>>

\* field.dataset.errorMessage
DatasetErrorMessage(field) ==
    IF hasAttribute(field, "data-error-message")
    THEN Str(field.attrs["data-error-message"])
    ELSE Undef

(***************************************************************************)
(* Regular expressions: a pattern is a string cut into tokens.  A token is *)
(* an anchor ("^", "$"), an atom (a literal character, ".", "\\d",         *)
(* "[a-z]", "[0-9]") or a quantifier ("+", "*", "?") that follows an atom. *)
(***************************************************************************)
Quantifiers == {"+", "*", "?"}

AtomMatches(atom, ch) ==
    CASE atom = "." -> TRUE
      [] atom = "\\d" -> ch \in Digits
      [] atom = "[0-9]" -> ch \in Digits
      [] atom = "[a-z]" -> ch \in Lower
      [] OTHER -> ch = atom

\* new RegExp(pattern) throws a SyntaxError on a quantifier with nothing to repeat
RegExpCompiles(toks) ==
    \A i \in 1..Len(toks) :
        toks[i] \in Quantifiers =>
            i > 1 /\ toks[i - 1] \notin Quantifiers \cup {"^"}

\* the positions at which a match of toks that starts at position p can end
RECURSIVE MatchEnds(_, _, _)
MatchEnds(toks, s, p) ==
    IF toks = <<>> THEN {p}
    ELSE IF toks[1] = "^"
    THEN IF p = 1 THEN MatchEnds(Tail(toks), s, p) ELSE {}
    ELSE IF toks[1] = "$"
    THEN IF p = Len(s) + 1 THEN MatchEnds(Tail(toks), s, p) ELSE {}
    ELSE LET q == IF Len(toks) >= 2 /\ toks[2] \in Quantifiers THEN toks[2] ELSE ""
             rest == IF q = "" THEN Tail(toks) ELSE Tail(Tail(toks))
             lo == IF q \in {"*", "?"} THEN 0 ELSE 1
             hi == IF q \in {"", "?"} THEN 1 ELSE Len(s) + 1 - p
             reach == {p + k : k \in {n \in lo..hi :
                          /\ p + n - 1 <= Len(s)
                          /\ \A j \in p..(p + n - 1) : AtomMatches(toks[1], s[j])}}
         IN UNION {MatchEnds(rest, s, r) : r \in reach}

\* (new RegExp(pattern)).test(value): a match anywhere in the value
validRegExp(pattern, value) ==
    \E start \in 1..(Len(value) + 1) : MatchEnds(pattern, value, start) # {}

(***************************************************************************)
(* Dates.  Date.parse is modelled on the date-only ISO form YYYY-MM-DD     *)
(* (the value of a date input) and is NaN for every other string.  The     *)
(* time stamp of such a date is a whole number of days since 1970-01-01    *)
(* UTC; the model counts it in days instead of milliseconds, which keeps   *)
(* its sign, its order and whether it is zero.                             *)
(***************************************************************************)
DaysFromCivil(y0, m, d) ==
    LET y == IF m <= 2 THEN y0 - 1 ELSE y0
        era == y \div 400
        yoe == y - era * 400
        mp == IF m > 2 THEN m - 3 ELSE m + 9
        doy == (153 * mp + 2) \div 5 + d - 1
        doe == yoe * 365 + yoe \div 4 - yoe \div 100 + doy
    IN era * 146097 + doe - 719468

DateParse(s) ==
    IF /\ Len(s) = 10
       /\ s[5] = "-" /\ s[8] = "-"
       /\ AllDigits(SubSeq(s, 1, 4)) /\ AllDigits(SubSeq(s, 6, 7)) /\ AllDigits(SubSeq(s, 9, 10))
       /\ DigitsToNat(SubSeq(s, 6, 7)) \in 1..12
       /\ DigitsToNat(SubSeq(s, 9, 10)) \in 1..31
    THEN Num(DaysFromCivil(DigitsToNat(SubSeq(s, 1, 4)),
                           DigitsToNat(SubSeq(s, 6, 7)),
                           DigitsToNat(SubSeq(s, 9, 10))))
    ELSE NaN

NumLT(x, y) == x.t = "number" /\ y.t = "number" /\ x.v < y.v
NumGT(x, y) == x.t = "number" /\ y.t = "number" /\ x.v > y.v

validDate(field) ==
    LET value == DateParse(field.value)
        attrMin == getAttribute(field, "min")
        attrMax == getAttribute(field, "max")
    IN IF Truthy(value)
       THEN IF /\ hasAttribute(field, "min")
               /\ Truthy(attrMin) /\ attrMin.v # <<>>
               /\ NumLT(value, DateParse(attrMin.v))
            THEN FALSE
            ELSE IF /\ hasAttribute(field, "max")
                    /\ Truthy(attrMax) /\ attrMax.v # <<>>
                    /\ NumGT(value, DateParse(attrMax.v))
            THEN FALSE
            ELSE TRUE
       ELSE FALSE

(***************************************************************************)
(* Selectors.  A selector is a string cut into characters.  The model      *)
(* reads compound selectors: an optional element name, then "#" and "."    *)
(* each followed by an identifier (no combinators, attribute selectors or  *)
(* pseudo-classes: no selector of the model has one).  querySelector       *)
(* throws a SyntaxError on a selector that does not parse.                 *)
(***************************************************************************)
IdentChars == Alnum \cup {"-", "_"}

\* a CSS identifier: identifier characters, not starting with a digit nor
\* with a hyphen followed by a digit
IsIdent(s) ==
    /\ s # <<>>
    /\ \A i \in 1..Len(s) : s[i] \in IdentChars
    /\ s[1] \notin Digits
    /\ ~(s[1] = "-" /\ (Len(s) = 1 \/ s[2] \in Digits))

\* the simple selectors of a compound selector: <<>> when it is malformed
RECURSIVE SimpleSelectors(_)
SimpleSelectors(sel) ==
    IF sel = <<>> THEN <<>>
    ELSE LET from == IF sel[1] \in {"#", "."} THEN 2 ELSE 1
             n == CHOOSE k \in (from - 1)..Len(sel) :
                      /\ \A j \in from..k : sel[j] \notin {"#", "."}
                      /\ (k = Len(sel) \/ sel[k + 1] \in {"#", "."})
             rest == SubSeq(sel, n + 1, Len(sel))
             tl == SimpleSelectors(rest)
         IN IF ~IsIdent(SubSeq(sel, from, n)) \/ (rest # <<>> /\ tl = <<>>)
            THEN <<>>
            ELSE <<[kind |-> IF from = 2 THEN sel[1] ELSE "element",
                    ident |-> SubSeq(sel, from, n)]>> \o tl

SelectorValid(sel) == SimpleSelectors(sel) # <<>>

\* whether an element with this name, id and classes matches the selector
Matches(sel, node, id, classes) ==
    LET ss == SimpleSelectors(sel)
    IN /\ ss # <<>>
       /\ \A k \in 1..Len(ss) :
              CASE ss[k].kind = "#" -> ss[k].ident = id
                [] ss[k].kind = "." -> ss[k].ident \in classes
                [] OTHER -> ss[k].ident = node

\* the element name of a control, cut into characters
TagOf(field) ==
    CASE field.node = "input" -> <<"i", "n", "p", "u", "t">>
      [] field.node = "select" -> <<"s", "e", "l", "e", "c", "t">>
      [] field.node = "textarea" -> <<"t", "e", "x", "t", "a", "r", "e", "a">>

\* this.form.querySelectorAll(sel): the matching controls
FormQuerySelectorAll(fields, sel) ==
    {k \in 1..Len(fields) :
        Matches(sel, TagOf(fields[k]), fields[k].id, fields[k].classes)}

\* this.form.querySelector(sel): the first matching control, 0 when none
FormQuerySelector(fields, sel) ==
    IF FormQuerySelectorAll(fields, sel) # {}
    THEN CHOOSE k \in FormQuerySelectorAll(fields, sel) :
             \A j \in FormQuerySelectorAll(fields, sel) : k <= j
    ELSE 0

(***************************************************************************)
(* Length measurement                                                      *)
(***************************************************************************)
\* this.form.querySelectorAll("[name='" + escapeCssMeta(name) + "']")
findByName(fields, name) ==
    {k \in 1..Len(fields) : name # <<>> /\ fields[k].name = name}

checkable(element) == element.type \in {"radio", "checkbox"}

getLength(value, element, fields) ==
    IF element.node = "select" THEN Num(element.selected)
    ELSE IF element.node = "input" /\ checkable(element)
    THEN Num(Cardinality({k \in findByName(fields, element.name) : fields[k].checked}))
    ELSE IF element.node = "input" /\ element.type = "number" THEN parseInt(value)
    ELSE IF element.node = "input" /\ element.type = "file" THEN Num(element.files)
    ELSE Num(Len(value))

minlength(value, element, param, fields) == NumGE(getLength(value, element, fields), param)

maxlength(value, element, param, fields) == NumLE(getLength(value, element, fields), param)

rangelength(value, element, lo, hi, fields) ==
    /\ NumGE(getLength(value, element, fields), lo)
    /\ NumLE(getLength(value, element, fields), hi)

(***************************************************************************)
(* validateField.  One evaluation threads a record c through the steps of  *)
(* the method: i (the position of the field in the form), fields (the      *)
(* controls of the form), errorNodes (the error elements of the document), *)
(* settings, messages, and the locals isValid, errorMessage and custom     *)
(* (customErrorMessage).  threw is set when the evaluation ends by an      *)
(* exception.  steps records, for each check that ran, its name and the    *)
(* values of isValid and errorMessage after it; calls records the custom   *)
(* predicates invoked, with their arguments.                               *)
(***************************************************************************)
Evaluation(i, flds, nodes, s, msgs) ==
    [i |-> i, fields |-> flds, errorNodes |-> nodes, settings |-> s,
     messages |-> msgs, isValid |-> TRUE, errorMessage |-> Str(<<>>),
     custom |-> <<>>, threw |-> FALSE, steps |-> <<>>, calls |-> <<>>]

\* a check that assigns its message whatever the custom message is
CheckUnguarded(c, name, ok, msg) ==
    LET m == IF ~ok THEN msg ELSE c.errorMessage
    IN [c EXCEPT !.isValid = ok,
                 !.errorMessage = m,
                 !.steps = Append(@, [name |-> name, isValid |-> ok, errorMessage |-> m])]

\* isValid = ok; if (!isValid && !customErrorMessage) errorMessage = msg
Check(c, name, ok, msg) ==
    LET m == IF ~ok /\ c.custom = <<>> THEN msg ELSE c.errorMessage
    IN [c EXCEPT !.isValid = ok,
                 !.errorMessage = m,
                 !.steps = Append(@, [name |-> name, isValid |-> ok, errorMessage |-> m])]

\* an exception that is caught where it is thrown
ThrowCaught(c) == c

Throw(c) == [c EXCEPT !.threw = TRUE]

\* customErrorMessage and the initial errorMessage
CustomMessageStep(c) ==
    LET d == DatasetErrorMessage(c.fields[c.i])
        custom == IF Truthy(d) THEN d.v ELSE <<>>
    IN [c EXCEPT !.custom = custom,
                 !.errorMessage = IF custom # <<>> THEN Str(custom) ELSE Str(<<>>)]

\* this.form.querySelectorAll('input[name="' + name + '"]')
InputsNamed(flds, name) ==
    {k \in 1..Len(flds) : flds[k].node = "input" /\ name # <<>> /\ flds[k].name = name}

\* a group check that leaves the classes of the group alone
validateCheckboxRadioVerdictOnly(flds, s, name) ==
    [result |-> \E k \in InputsNamed(flds, name) : flds[k].checked,
     fields |-> flds]

\* validateCheckboxRadio: the verdict, and the controls after the error
\* class was removed from every member of the group
validateCheckboxRadio(flds, s, name) ==
    LET element == InputsNamed(flds, name)
        found == \E k \in element : flds[k].checked
        cls == Get(s, "errorFieldClass")
    IN [result |-> found,
        fields |-> IF found /\ Truthy(s) /\ Truthy(cls)
                   THEN [k \in 1..Len(flds) |->
                            IF k \in element
                            THEN [flds[k] EXCEPT !.classes = @ \ {cls.v}]
                            ELSE flds[k]]
                   ELSE flds]

RequiredStep(c) ==
    LET field == c.fields[c.i]
    IN IF ~hasAttribute(field, "required") THEN c
       ELSE IF field.type \in {"checkbox", "radio"}
       THEN LET r == validateCheckboxRadio(c.fields, c.settings, field.name)
            IN Check([c EXCEPT !.fields = r.fields], "required", r.result,
                     Get(c.messages, "required"))
       ELSE Check(c, "required", notEmpty(field.value), Get(c.messages, "required"))

\* a guard that forgets the value: if (isValid)
ValueGuardValidOnly(c) == c.isValid

\* if (isValid && fieldValue && fieldValue !== '')
ValueGuard(c) ==
    c.isValid /\ Truthy(Str(c.fields[c.i].value)) /\ c.fields[c.i].value # <<>>

\* a minimum check that reads the bound as one more than it is
MinimumCheckOffByOne(c, minAttr) ==
    LET field == c.fields[c.i]
    IN Check(c, "minimum",
             NumGE(getLength(field.value, field, c.fields), Num(parseInt(minAttr).v + 1)),
             IF Truthy(getAttribute(field, "min"))
             THEN Replace(Get(c.messages, "min"), "{0}", minAttr)
             ELSE Replace(Get(c.messages, "minlength"), "{0}", minAttr))

\* the default branch of the type switch
MinimumCheck(c, minAttr) ==
    LET field == c.fields[c.i]
    IN Check(c, "minimum",
             minlength(field.value, field, parseInt(minAttr), c.fields),
             IF Truthy(getAttribute(field, "min"))
             THEN Replace(Get(c.messages, "min"), "{0}", minAttr)
             ELSE Replace(Get(c.messages, "minlength"), "{0}", minAttr))

MaximumCheck(c, maxAttr) ==
    LET field == c.fields[c.i]
    IN Check(c, "maximum",
             maxlength(field.value, field, parseInt(maxAttr), c.fields),
             IF Truthy(getAttribute(field, "max"))
             THEN Replace(Get(c.messages, "max"), "{0}", maxAttr)
             ELSE Replace(Get(c.messages, "maxlength"), "{0}", maxAttr))

\* a combined check that always takes the rangelength template
RangeCheckLengthMessage(c, minAttr, maxAttr) ==
    LET field == c.fields[c.i]
    IN Check(c, "range",
             rangelength(field.value, field, parseInt(minAttr), parseInt(maxAttr), c.fields),
             Replace(Replace(Get(c.messages, "rangelength"), "{0}", minAttr), "{1}", maxAttr))

RangeCheck(c, minAttr, maxAttr) ==
    LET field == c.fields[c.i]
    IN Check(c, "range",
             rangelength(field.value, field, parseInt(minAttr), parseInt(maxAttr), c.fields),
             IF Truthy(getAttribute(field, "max")) /\ Truthy(getAttribute(field, "min"))
             THEN Replace(Replace(Get(c.messages, "range"), "{0}", minAttr), "{1}", maxAttr)
             ELSE Replace(Replace(Get(c.messages, "rangelength"), "{0}", minAttr), "{1}", maxAttr))

LengthStep(c) ==
    LET field == c.fields[c.i]
        minAttr == IF Truthy(getAttribute(field, "minlength"))
                   THEN getAttribute(field, "minlength")
                   ELSE getAttribute(field, "min")
        maxAttr == IF Truthy(getAttribute(field, "maxlength"))
                   THEN getAttribute(field, "maxlength")
                   ELSE getAttribute(field, "max")
        hasMin == Truthy(minAttr) /\ validDigits(minAttr.v)
        hasMax == Truthy(maxAttr) /\ validDigits(maxAttr.v)
        c1 == IF hasMin THEN MinimumCheck(c, minAttr.v) ELSE c
        c2 == IF hasMax THEN MaximumCheck(c1, maxAttr.v) ELSE c1
    IN IF hasMin /\ hasMax THEN RangeCheck(c2, minAttr.v, maxAttr.v) ELSE c2

\* a type switch that sends every type to the length checks
TypeStepLengthOnly(c) == LengthStep(c)

\* switch (fieldType)
TypeStep(c) ==
    LET field == c.fields[c.i]
    IN CASE field.type = "email" ->
              Check(c, "email", validEmail(field.value), Get(c.messages, "email"))
         [] field.type = "tel" ->
              Check(c, "tel", validPhone(field.value), Get(c.messages, "phone"))
         [] field.type = "url" ->
              Check(c, "url", validUrl(field.value), Get(c.messages, "url"))
         [] field.type = "file" ->
              Check(c, "file", field.files > 0, Get(c.messages, "file"))
         [] field.type = "date" ->
              Check(c, "date", validDate(field), Get(c.messages, "date"))
         [] OTHER -> LengthStep(c)

\* if (isValid && fieldValue && fieldValue !== '' && pattern !== '')
PatternStep(c) ==
    LET field == c.fields[c.i]
    IN IF c.isValid /\ Truthy(Str(field.value)) /\ field.value # <<>> /\ PatternOf(field) # <<>>
       THEN IF ~RegExpCompiles(PatternOf(field)) THEN Throw(c)
            ELSE Check(c, "pattern", validRegExp(PatternOf(field), field.value),
                       Get(c.messages, "regExp"))
       ELSE c

(***************************************************************************)
(* Declared rules                                                          *)
(***************************************************************************)
\* the elements of an array, in index order
IndexKeys == <<"0", "1", "2", "3">>

ArrayToSeq(a) == [k \in 1..Cardinality(Keys(a)) |-> a.f[IndexKeys[k]]]

RECURSIVE Flatten(_)
Flatten(ss) == IF ss = <<>> THEN <<>> ELSE Head(ss) \o Flatten(Tail(ss))

\* Number.prototype.toString of an integer
NumToString(v) == IF v.v < 0 THEN <<"-">> \o NatToString(0 - v.v) ELSE NatToString(v.v)

\* The custom predicates of the model, by name: what rule.method(value,
\* field) returns, or "throw" when it throws
PredicateOutcome(name, value, field) ==
    CASE name = "accept" -> "true"
      [] name = "reject" -> "false"
      [] name = "throws" -> "throw"
      [] name = "parse" -> IF value = <<"!">> THEN "throw" ELSE "true"
      [] name = "notAdmin" ->
            IF value = <<"a", "d", "m", "i", "n">> THEN "false" ELSE "true"
      [] OTHER -> "true"

\* the rules of the field settings whose name equals the field's name, in
\* the order forEach meets them
RulesFor(s, fieldName) ==
    LET fs == ArrayToSeq(Get(s, "fields"))
    IN Flatten([k \in 1..Len(fs) |->
                   IF Get(fs[k], "name") = Str(fieldName) /\ Truthy(Get(fs[k], "rules"))
                   THEN ArrayToSeq(Get(fs[k], "rules"))
                   ELSE <<>>])

\* a rule whose own message is never read
RuleMessageCatalogOnly(rule, fallback) == fallback

\* rule.errorMessage ? rule.errorMessage : fallback
RuleMessage(rule, fallback) ==
    IF Truthy(Get(rule, "errorMessage")) THEN Get(rule, "errorMessage") ELSE fallback

\* one pass of the body of fieldSetting.rules.forEach, entered with isValid
ApplyRule(c, rule) ==
    LET field == c.fields[c.i]
        value == field.value
        method == Get(rule, "method")
        min == Get(rule, "min")
        max == Get(rule, "max")
        target == Get(rule, "field")
    IN IF method.t = "function"
       THEN LET out == PredicateOutcome(method.v, value, field)
                c1 == [c EXCEPT !.calls =
                          Append(@, [fn |-> method.v, value |-> value, field |-> c.i])]
            IN IF out = "throw" THEN Throw(c1)
               ELSE Check(c1, "rule", out = "true",
                          RuleMessage(rule, Get(c.messages, "remote")))
       ELSE CASE method = Str(<<"equalTo">>) ->
                   IF ~Truthy(target) THEN c
                   ELSE IF ~SelectorValid(target.v) THEN Throw(c)
                   ELSE IF FormQuerySelector(c.fields, target.v) = 0 THEN c
                   ELSE Check(c, "equalTo",
                              value = c.fields[FormQuerySelector(c.fields, target.v)].value,
                              RuleMessage(rule, Get(c.messages, "equalTo")))
              [] method = Str(<<"minlength">>) ->
                   IF ~Truthy(min) THEN c
                   ELSE Check(c, "rule-minlength",
                              minlength(value, field, min, c.fields),
                              Replace(IF Truthy(getAttribute(field, "min"))
                                      THEN RuleMessage(rule, Get(c.messages, "min"))
                                      ELSE RuleMessage(rule, Get(c.messages, "minlength")),
                                      "{0}", NumToString(min)))
              [] method = Str(<<"maxlength">>) ->
                   IF ~Truthy(max) THEN c
                   ELSE Check(c, "rule-maxlength",
                              maxlength(value, field, max, c.fields),
                              Replace(IF Truthy(getAttribute(field, "max"))
                                      THEN RuleMessage(rule, Get(c.messages, "max"))
                                      ELSE RuleMessage(rule, Get(c.messages, "maxlength")),
                                      "{0}", NumToString(max)))
              [] method = Str(<<"rangelength">>) ->
                   IF ~(Truthy(min) /\ Truthy(max)) THEN c
                   ELSE Check(c, "rule-rangelength",
                              rangelength(value, field, min, max, c.fields),
                              Replace(Replace(
                                  IF Truthy(getAttribute(field, "max")) /\ Truthy(getAttribute(field, "min"))
                                  THEN RuleMessage(rule, Get(c.messages, "range"))
                                  ELSE RuleMessage(rule, Get(c.messages, "rangelength")),
                                  "{0}", NumToString(min)), "{1}", NumToString(max)))
              [] OTHER -> c

\* a loop that applies every rule, whatever the rules before it found
RECURSIVE RunRulesUnguarded(_, _)
RunRulesUnguarded(c, rules) ==
    IF rules = <<>> \/ c.threw THEN c
    ELSE RunRulesUnguarded(ApplyRule(c, Head(rules)), Tail(rules))

\* fieldSetting.rules.forEach(rule => { if (isValid) { ... } })
RECURSIVE RunRules(_, _)
RunRules(c, rules) ==
    IF rules = <<>> \/ c.threw THEN c
    ELSE RunRules(IF c.isValid THEN ApplyRule(c, Head(rules)) ELSE c, Tail(rules))

\* if (isValid && this.settings && this.settings.fields)
RulesStep(c) ==
    IF c.threw THEN c
    ELSE IF c.isValid /\ Truthy(c.settings) /\ Truthy(Get(c.settings, "fields"))
    THEN RunRules(c, RulesFor(c.settings, c.fields[c.i].name))
    ELSE c

(***************************************************************************)
(* The error element.  errorNodes maps the id of each error element of the *)
(* document to its state: tag, className, text (innerText), display (the   *)
(* inline display property, "" when unset), placement (how it was          *)
(* inserted) and created (how many elements were created with this id).    *)
(* An errorPlacement callback inserts the element it is given into the     *)
(* document.                                                               *)
(***************************************************************************)
ErrorSuffix == <<"-", "e", "r", "r", "o", "r">>

\* (fieldId ? fieldId : fieldName) + '-error'
ErrorHelpId(field) ==
    LET fieldId == IF field.type \in {"checkbox", "radio"} THEN field.name ELSE field.id
    IN (IF fieldId # <<>> THEN fieldId ELSE field.name) \o ErrorSuffix

\* document.querySelector(sel) among the error elements: the id of the
\* match, as a set that is empty when there is none
DocumentQuery(nodes, sel) ==
    {id \in DOMAIN nodes : Matches(sel, nodes[id].tag, id, {nodes[id].className})}

CreateErrorNode(c, id) ==
    LET s == c.settings
        node == [tag |-> IF Truthy(Get(s, "errorElement")) THEN Get(s, "errorElement").v ELSE <<"p">>,
                 className |-> IF Truthy(Get(s, "errorClass")) THEN Get(s, "errorClass").v ELSE <<"error">>,
                 text |-> Str(<<>>),
                 display |-> "",
                 placement |-> IF Get(s, "errorPlacement").t = "function"
                               THEN "errorPlacement" ELSE "afterend",
                 created |-> IF id \in DOMAIN c.errorNodes
                             THEN c.errorNodes[id].created + 1 ELSE 1]
    IN [c EXCEPT !.errorNodes = [k \in DOMAIN @ \cup {id} |-> IF k = id THEN node ELSE @[k]]]

\* the end of validateField: find or create the error element, then show
\* the message or hide the element
ErrorNodeStep(c) ==
    LET field == c.fields[c.i]
        id == ErrorHelpId(field)
        sel == <<"#">> \o id
        cls == Get(c.settings, "errorFieldClass")
        c1 == IF DocumentQuery(c.errorNodes, sel) = {} /\ Truthy(c.settings)
              THEN CreateErrorNode(c, id) ELSE c
        hit == DocumentQuery(c1.errorNodes, sel)
        errorHelp == CHOOSE k \in hit : TRUE
    IN IF ~SelectorValid(sel) THEN Throw(c)
       ELSE IF hit = {} THEN c1
       ELSE IF c1.isValid
       THEN [c1 EXCEPT !.errorNodes[errorHelp].display = "none",
                       !.fields[c.i].classes =
                           IF Truthy(c.settings) /\ Truthy(cls) THEN @ \ {cls.v} ELSE @]
       ELSE [c1 EXCEPT !.errorNodes[errorHelp].text = c1.errorMessage,
                       !.errorNodes[errorHelp].display = "",
                       !.fields[c.i].classes =
                           IF Truthy(c.settings) /\ Truthy(cls) THEN @ \cup {cls.v} ELSE @]

\* validateField(field), for the field at position i
AfterRequired(c) ==
    IF ValueGuard(c) THEN Bind(RulesStep, Bind(PatternStep, Bind(TypeStep, c))) ELSE c

Finish(c) == IF c.threw THEN c ELSE ErrorNodeStep(c)

validateField(i, flds, nodes, s, msgs) ==
    Bind(Finish,
         Bind(AfterRequired,
              Bind(RequiredStep,
                   Bind(CustomMessageStep, Evaluation(i, flds, nodes, s, msgs)))))

(***************************************************************************)
(* validateForm                                                            *)
(***************************************************************************)
\* this.fields.forEach(field => { ... }): visited lists the fields handed
\* to validateField, verdicts what the calls that returned have returned
\* a loop that stops at the first field found invalid
VisitStopOnFailure(acc) ==
    LET i == Head(acc.todo)
        Merge(r) == [acc EXCEPT !.fields = r.fields,
                                !.errorNodes = r.errorNodes,
                                !.threw = r.threw,
                                !.isValid = IF r.threw \/ r.isValid THEN @ ELSE FALSE,
                                !.visited = Append(@, i),
                                !.verdicts = IF r.threw THEN @ ELSE Append(@, r.isValid),
                                !.calls = @ \o r.calls,
                                !.todo = IF r.threw \/ r.isValid THEN Tail(@) ELSE <<>>]
    IN Bind(Merge, validateField(i, acc.fields, acc.errorNodes, acc.settings, acc.messages))

Visit(acc) ==
    LET i == Head(acc.todo)
        Merge(r) == [acc EXCEPT !.fields = r.fields,
                                !.errorNodes = r.errorNodes,
                                !.threw = r.threw,
                                !.isValid = IF r.threw \/ r.isValid THEN @ ELSE FALSE,
                                !.visited = Append(@, i),
                                !.verdicts = IF r.threw THEN @ ELSE Append(@, r.isValid),
                                !.calls = @ \o r.calls,
                                !.todo = Tail(@)]
    IN Bind(Merge, validateField(i, acc.fields, acc.errorNodes, acc.settings, acc.messages))

RECURSIVE VisitFields(_)
VisitFields(acc) ==
    IF acc.todo = <<>> \/ acc.threw THEN acc ELSE VisitFields(Bind(Visit, acc))

validateForm(trk, flds, nodes, s, msgs) ==
    VisitFields([fields |-> flds, errorNodes |-> nodes, settings |-> s,
                 messages |-> msgs, isValid |-> TRUE, threw |-> FALSE,
                 visited |-> <<>>, verdicts |-> <<>>, calls |-> <<>>, todo |-> trk])

\* the largest number of loadMessages calls in flight at once
MaxFetches == 2

(***************************************************************************)
(* The state                                                               *)
(***************************************************************************)
VARIABLES
    pc,           \* "start", then "bound" once the constructor has returned,
                  \* or "threw" when it ended by an exception
    settingsArg,  \* the settings argument of the constructor
    settings,     \* this.settings
    messages,     \* this.messages, the catalog validateField reads
    fields,       \* the controls of the form, in document order
    tracked,      \* this.fields: the positions of the tracked controls
    errorNodes,   \* the error elements of the document
    formClasses,  \* the class list of the form
    fetches,      \* the responses of the loadMessages calls in flight
    sinceSubmit,  \* what happened last among submit and reset
    last,         \* what the last operation did
    call,         \* a call of deepMerge: its heap, its arguments, its outcome
    reset         \* the handling of a reset: the calls in progress, innermost
                  \* last, and the form's "locked for reset" mark

vars == <<pc, settingsArg, settings, messages, fields, tracked, errorNodes,
          formClasses, fetches, sinceSubmit, last, call, reset>>

\* no call of deepMerge is observed
NoCall ==
    [phase |-> "none", h |-> <<>>, obj1 |-> Undef, obj2 |-> Undef,
     after |-> <<>>, seen |-> EmptyMap, v |-> Undef]

\* no reset is being handled
NoReset ==
    [stack |-> <<>>, locked |-> FALSE, entries |-> 0, hadClass |-> FALSE,
     dirty |-> FALSE]

\* the record of an operation
Did(op) ==
    [op |-> op, field |-> 0, isValid |-> TRUE, threw |-> FALSE,
     message |-> Str(<<>>), steps |-> <<>>, calls |-> <<>>, visited |-> <<>>,
     verdicts |-> <<>>, prevented |-> FALSE, handlerCalls |-> 0,
     nativeCalls |-> 0, logged |-> FALSE, data |-> Undef]

\* form.querySelectorAll('input[name], textarea, select'), without the
\* controls that the ignore selector matches
Discover(flds, s) ==
    LET all == {k \in 1..Len(flds) : flds[k].node # "input" \/ flds[k].name # <<>>}
        ign == IF Truthy(Get(s, "ignore"))
               THEN FormQuerySelectorAll(flds, Get(s, "ignore").v) ELSE {}
        keep == all \ ign
        RECURSIVE Ordered(_)
        Ordered(k) ==
            IF k > Len(flds) THEN <<>>
            ELSE (IF k \in keep THEN <<k>> ELSE <<>>) \o Ordered(k + 1)
    IN Ordered(1)

(***************************************************************************)
(* Operations                                                              *)
(***************************************************************************)
\* new FormValidator(form, settingsArg): reading this.settings.messages
\* throws a TypeError when the merge left this.settings undefined or null
Construct ==
    /\ pc = "start"
    /\ LET s == EffectiveSettings(messages, settingsArg)
       IN /\ settings' = s
          /\ IF s.t \in {"undefined", "null"}
             THEN /\ pc' = "threw"
                  /\ last' = [Did("construct") EXCEPT !.threw = TRUE]
                  /\ UNCHANGED <<messages, tracked>>
             ELSE /\ pc' = "bound"
                  /\ messages' = ConstructedMessages(s, messages)
                  /\ tracked' = Discover(fields, s)
                  /\ last' = Did("construct")
    /\ UNCHANGED <<reset, call, settingsArg, fields, errorNodes, formClasses, fetches, sinceSubmit>>

\* the user edits a control: the values of the model that a control of
\* this type is given
Typed(field) ==
    IF field.type = "email"
    THEN {<<>>, <<"a", "b">>, <<"a", "@", "b", ".", "c", "o">>}
    ELSE {<<>>, <<"a", "b">>, <<"!">>}

Input(i, v) ==
    /\ pc = "bound"
    /\ i \in 1..Len(fields)
    /\ v \in Typed(fields[i])
    /\ fields[i].value # v
    /\ fields' = [fields EXCEPT ![i].value = v]
    /\ last' = Did("input")
    /\ UNCHANGED <<reset, call, pc, settingsArg, settings, messages, tracked, errorNodes,
                   formClasses, fetches, sinceSubmit>>

\* the user clicks a checkbox, which flips it, or a radio button that is
\* not checked, which checks it and unchecks the others of its group
Toggle(i) ==
    /\ pc = "bound"
    /\ i \in 1..Len(fields)
    /\ checkable(fields[i])
    /\ fields[i].type = "radio" => ~fields[i].checked
    /\ fields' = [k \in 1..Len(fields) |->
                     IF k = i THEN [fields[k] EXCEPT !.checked = ~@]
                     ELSE IF /\ fields[i].type = "radio"
                             /\ fields[k].type = "radio"
                             /\ fields[k].name = fields[i].name
                     THEN [fields[k] EXCEPT !.checked = FALSE]
                     ELSE fields[k]]
    /\ last' = Did("input")
    /\ UNCHANGED <<reset, call, pc, settingsArg, settings, messages, tracked, errorNodes,
                   formClasses, fetches, sinceSubmit>>

\* what an evaluation leaves in `last`
Outcome(op, i, r) ==
    [Did(op) EXCEPT !.field = i, !.isValid = r.isValid, !.threw = r.threw,
                    !.message = r.errorMessage, !.steps = r.steps, !.calls = r.calls]

\* fieldValidationEvent: a blur, keyup or change event on a tracked control
FieldEvent(i) ==
    /\ pc = "bound"
    /\ \E k \in 1..Len(tracked) : tracked[k] = i
    /\ \E r \in {validateField(i, fields, errorNodes, settings, messages)} :
          /\ fields' = r.fields
          /\ errorNodes' = r.errorNodes
          /\ last' = Outcome("validateField", i, r)
    /\ UNCHANGED <<reset, call, pc, settingsArg, settings, messages, tracked, formClasses,
                   fetches, sinceSubmit>>

\* a call of validateForm()
ValidateForm ==
    /\ pc = "bound"
    /\ \E r \in {validateForm(tracked, fields, errorNodes, settings, messages)} :
          /\ fields' = r.fields
          /\ errorNodes' = r.errorNodes
          /\ last' = [Did("validateForm") EXCEPT !.isValid = r.isValid, !.threw = r.threw,
                          !.visited = r.visited, !.verdicts = r.verdicts, !.calls = r.calls]
    /\ UNCHANGED <<reset, call, pc, settingsArg, settings, messages, tracked, formClasses,
                   fetches, sinceSubmit>>

\* submitAction(): the class list of the form, the validation, whether the
\* handler and the native submit ran, and whether an exception ended it
\* a submit that defers to the handler or the native submission whatever
\* the validation found
submitActionUnchecked(trk, flds, nodes, s, msgs, classes) ==
    LET cls == Get(s, "validFormClass")
        marked == IF Truthy(s) /\ Truthy(cls) THEN classes \cup {cls.v} ELSE classes
        handler == Truthy(s) /\ Truthy(Get(s, "submitHandler"))
        After(r) ==
            [validation |-> r,
             classes |-> marked,
             handlerCalls |-> IF ~r.threw /\ handler THEN 1 ELSE 0,
             nativeCalls |-> IF ~r.threw /\ ~handler THEN 1 ELSE 0]
    IN Bind(After, validateForm(trk, flds, nodes, s, msgs))

submitAction(trk, flds, nodes, s, msgs, classes) ==
    LET cls == Get(s, "validFormClass")
        marked == IF Truthy(s) /\ Truthy(cls) THEN classes \cup {cls.v} ELSE classes
        handler == Truthy(s) /\ Truthy(Get(s, "submitHandler"))
        After(r) ==
            [validation |-> r,
             classes |-> IF r.threw \/ r.isValid THEN marked
                         ELSE IF Truthy(s) /\ Truthy(cls) THEN marked \ {cls.v} ELSE marked,
             handlerCalls |-> IF ~r.threw /\ r.isValid /\ handler THEN 1 ELSE 0,
             nativeCalls |-> IF ~r.threw /\ r.isValid /\ ~handler THEN 1 ELSE 0]
    IN Bind(After, validateForm(trk, flds, nodes, s, msgs))

\* a submit event: the listener of checkSubmit
Submit ==
    /\ pc = "bound"
    /\ \E a \in {submitAction(tracked, fields, errorNodes, settings, messages, formClasses)} :
       \E r \in {a.validation} :
          /\ fields' = r.fields
          /\ errorNodes' = r.errorNodes
          /\ formClasses' = a.classes
          /\ sinceSubmit' = IF r.threw THEN "aborted"
                            ELSE IF r.isValid THEN "valid" ELSE "invalid"
          /\ last' = [Did("submit") EXCEPT !.isValid = r.isValid, !.threw = r.threw,
                          !.visited = r.visited, !.verdicts = r.verdicts, !.calls = r.calls,
                          !.prevented = TRUE, !.handlerCalls = a.handlerCalls,
                          !.nativeCalls = a.nativeCalls]
    /\ UNCHANGED <<reset, call, pc, settingsArg, settings, messages, tracked, fetches>>

\* resetForm(): the class list of the form after it
resetForm(s, classes) ==
    IF Truthy(s) /\ Truthy(Get(s, "validFormClass"))
    THEN classes \ {Get(s, "validFormClass").v} ELSE classes

\* a reset event: the listener of init calls resetForm, and the native
\* reset gives every control its default value back
Reset ==
    /\ pc = "bound"
    /\ formClasses' = resetForm(settings, formClasses)
    /\ fields' = [k \in 1..Len(fields) |->
                     [fields[k] EXCEPT !.value = fields[k].defaultValue]]
    /\ sinceSubmit' = "reset"
    /\ last' = Did("reset")
    /\ UNCHANGED <<reset, call, pc, settingsArg, settings, messages, tracked, errorNodes, fetches>>

(***************************************************************************)
(* The handling of a reset, call by call.  reset.stack holds the calls in  *)
(* progress: the form's reset algorithm (fn "reset"), run for a reset      *)
(* button or by the reset() method, and resetForm, called by the listener  *)
(* of init or by the page.  The handling is synchronous: no other event    *)
(* is served before the outermost call has returned.                       *)
(***************************************************************************)
MaxNesting == 6

Frame(fn, by, at) == [fn |-> fn, by |-> by, at |-> at]

Idle == reset.stack = <<>>

Top == reset.stack[Len(reset.stack)]

\* the call in progress moves on to the position at
Moved(at) == [reset.stack EXCEPT ![Len(reset.stack)].at = at]

Returned == SubSeq(reset.stack, 1, Len(reset.stack) - 1)

\* the form carries the class that settings.validFormClass names
Marked(s, classes) ==
    /\ Truthy(s)
    /\ Truthy(Get(s, "validFormClass"))
    /\ Get(s, "validFormClass").v \in classes

Pristine(flds) == \A k \in 1..Len(flds) : flds[k].value = flds[k].defaultValue

\* a handling begins with the call f
Begin(f) ==
    [NoReset EXCEPT !.stack = <<f>>, !.hadClass = Marked(settings, formClasses),
                    !.dirty = ~Pristine(fields)]

\* this.form.reset() returns at once when the form is locked for reset
LockedNever(r) == FALSE

Locked(r) == r.locked

\* the user activates a reset button of the form: the reset algorithm
\* starts, the form is not locked
ResetButton ==
    /\ pc = "bound"
    /\ Idle
    /\ reset' = Begin(Frame("reset", "button", "fire"))
    /\ UNCHANGED <<call, pc, settingsArg, settings, messages, fields, tracked,
                   errorNodes, formClasses, fetches, sinceSubmit, last>>

\* the page calls resetForm()
CallResetForm ==
    /\ pc = "bound"
    /\ Idle
    /\ reset' = Begin(Frame("resetForm", "page", "enter"))
    /\ UNCHANGED <<call, pc, settingsArg, settings, messages, fields, tracked,
                   errorNodes, formClasses, fetches, sinceSubmit, last>>

\* the reset algorithm fires the reset event: the listener that init
\* installed runs and calls this.resetForm()
DispatchReset ==
    /\ ~Idle
    /\ Top.fn = "reset" /\ Top.at = "fire"
    /\ Len(reset.stack) < MaxNesting
    /\ reset' = [reset EXCEPT
                    !.stack = Append(Moved("fired"), Frame("resetForm", "listener", "enter"))]
    /\ UNCHANGED <<call, pc, settingsArg, settings, messages, fields, tracked,
                   errorNodes, formClasses, fetches, sinceSubmit, last>>

\* the body of resetForm: the class is removed and this.form.reset() is
\* called, which returns at once on a locked form and otherwise locks the
\* form and starts the reset algorithm
ResetFormBody ==
    /\ ~Idle
    /\ Top.fn = "resetForm" /\ Top.at = "enter"
    /\ Locked(reset) \/ Len(reset.stack) < MaxNesting
    /\ formClasses' = resetForm(settings, formClasses)
    /\ reset' = [reset EXCEPT
                    !.entries = @ + 1,
                    !.locked = TRUE,
                    !.stack = IF Locked(reset) THEN Moved("called")
                              ELSE Append(Moved("called"),
                                          Frame("reset", "method", "fire"))]
    /\ UNCHANGED <<call, pc, settingsArg, settings, messages, fields, tracked,
                   errorNodes, fetches, sinceSubmit, last>>

\* the listener has returned without cancelling the event: the reset
\* algorithm gives every control its default value back, and reset()
\* unlocks the form
ResetControls ==
    /\ ~Idle
    /\ Top.fn = "reset" /\ Top.at = "fired"
    /\ fields' = [k \in 1..Len(fields) |->
                     [fields[k] EXCEPT !.value = fields[k].defaultValue]]
    /\ reset' = [reset EXCEPT !.stack = Returned,
                              !.locked = IF Top.by = "method" THEN FALSE ELSE @]
    /\ sinceSubmit' = IF Returned = <<>> THEN "reset" ELSE sinceSubmit
    /\ last' = IF Returned = <<>> THEN Did("reset") ELSE last
    /\ UNCHANGED <<call, pc, settingsArg, settings, messages, tracked, errorNodes,
                   formClasses, fetches>>

\* resetForm returns
ResetFormReturn ==
    /\ ~Idle
    /\ Top.fn = "resetForm" /\ Top.at = "called"
    /\ reset' = [reset EXCEPT !.stack = Returned]
    /\ sinceSubmit' = IF Returned = <<>> THEN "reset" ELSE sinceSubmit
    /\ last' = IF Returned = <<>> THEN Did("reset") ELSE last
    /\ UNCHANGED <<call, pc, settingsArg, settings, messages, fields, tracked,
                   errorNodes, formClasses, fetches>>

\* the next step of a handling in progress
ResetStep ==
    \/ DispatchReset
    \/ ResetFormBody
    \/ ResetControls
    \/ ResetFormReturn

\* loadMessages(jsonFile): the fetch is started and the call returns
LoadMessages(resp) ==
    /\ pc = "bound"
    /\ Len(fetches) < MaxFetches
    /\ fetches' = Append(fetches, resp)
    /\ last' = Did("loadMessages")
    /\ UNCHANGED <<reset, call, pc, settingsArg, settings, messages, fields, tracked, errorNodes,
                   formClasses, sinceSubmit>>

Without(q, k) == SubSeq(q, 1, k - 1) \o SubSeq(q, k + 1, Len(q))

\* the fetch and response.json() have succeeded and the second `then`
\* callback runs with the parsed data; reading data.messages of null throws
\* a TypeError, which the catch callback logs
FetchResolve(k) ==
    /\ k \in 1..Len(fetches)
    /\ fetches[k].kind = "json"
    /\ LET data == fetches[k].data
       IN IF data.t \in {"undefined", "null"}
          THEN /\ last' = [Did("fetchResolve") EXCEPT !.data = data, !.logged = TRUE]
               /\ UNCHANGED messages
          ELSE /\ last' = [Did("fetchResolve") EXCEPT !.data = data]
               /\ messages' = IF Truthy(settings) /\ Truthy(Get(data, "messages"))
                              THEN LoadedMessages(data, messages)
                              ELSE messages
    /\ fetches' = Without(fetches, k)
    /\ UNCHANGED <<reset, call, pc, settingsArg, settings, fields, tracked, errorNodes,
                   formClasses, sinceSubmit>>

\* a catch callback that falls back to the default catalog
FetchRejectResets(k) ==
    /\ k \in 1..Len(fetches)
    /\ fetches[k].kind # "json"
    /\ fetches' = Without(fetches, k)
    /\ messages' = DefaultMessages
    /\ last' = [Did("fetchReject") EXCEPT !.logged = TRUE]
    /\ UNCHANGED <<reset, call, pc, settingsArg, settings, fields, tracked, errorNodes,
                   formClasses, sinceSubmit>>

\* the fetch was rejected or the response is not JSON: the catch callback
\* logs the error
FetchReject(k) ==
    /\ k \in 1..Len(fetches)
    /\ fetches[k].kind # "json"
    /\ fetches' = Without(fetches, k)
    /\ last' = [Did("fetchReject") EXCEPT !.logged = TRUE]
    /\ UNCHANGED <<reset, call, pc, settingsArg, settings, messages, fields, tracked, errorNodes,
                   formClasses, sinceSubmit>>

(***************************************************************************)
(* The forms, settings and responses of the model                          *)
(***************************************************************************)
Control(node, type, id, name, attrs, value) ==
    [node |-> node, type |-> type, id |-> id, name |-> name, attrs |-> attrs,
     value |-> value, defaultValue |-> value, checked |-> FALSE, files |-> 0,
     selected |-> 0, classes |-> {}]

NoAttrs == [a \in {} |-> <<>>]

IdUser == <<"u", "s", "e", "r">>
IdMail == <<"m", "a", "i", "l">>

\* a required text input followed by an email input
FormLogin ==
    <<Control("input", "text", IdUser, IdUser, [required |-> <<>>], <<>>),
      Control("input", "email", IdMail, IdMail, NoAttrs, <<>>)>>

\* what the user may type
Values ==
    {<<>>, <<"a", "b">>, <<"a", "@", "b", ".", "c", "o">>, <<"!">>}

UserRequired == Str(<<"Champ requis.">>)
UserMinlength == Str(<<"Au moins ", "{0}", " signes.">>)

ArgEmpty == Obj(EmptyMap)

ArgMessages == Obj([messages |-> Obj([required |-> UserRequired, minlength |-> UserMinlength])])

ArgHandler ==
    Obj([submitHandler |-> Fn("onSubmit"),
         errorFieldClass |-> Str(<<"is-invalid">>),
         validFormClass |-> Str(<<"validated">>)])

\* a custom predicate on the first field that throws on the value "!"
ArgRules ==
    Obj([fields |-> Arr("0" :> Obj([name |-> Str(IdUser),
                                   rules |-> Arr("0" :> Obj([method |-> Fn("parse"),
                                                            errorMessage |-> Null]))]))])

\* the same predicate, with a submit handler
ArgRulesHandler ==
    Obj([fields |-> Get(ArgRules, "fields"), submitHandler |-> Fn("onSubmit")])

SettingsArgs == {Undef, ArgEmpty, ArgMessages, ArgHandler, ArgRules, ArgRulesHandler}

Responses ==
    {[kind |-> "json", data |-> Obj([messages |-> Obj([required |-> UserRequired])])],
     [kind |-> "json", data |-> Obj([messages |-> Obj([required |-> Null,
                                                      welcome |-> Str(<<"Bienvenue">>)])])],
     [kind |-> "json", data |-> Obj([messages |-> Obj([required |-> Str(<<"Pflichtfeld.">>),
                                                      welcome |-> Str(<<"Willkommen">>)])])],
     [kind |-> "json", data |-> Obj([lang |-> Str(<<"fr">>)])],
     [kind |-> "json", data |-> Null],
     [kind |-> "unparseable", data |-> Undef],
     [kind |-> "rejected", data |-> Undef]}

(***************************************************************************)
(* The validator on a form: construction, user input, validation, submit,  *)
(* reset and message loading                                               *)
(***************************************************************************)
Init ==
    /\ pc = "start"
    /\ settingsArg \in SettingsArgs
    /\ settings = Undef
    /\ messages = DefaultMessages
    /\ fields = FormLogin
    /\ tracked = <<>>
    /\ errorNodes = EmptyMap
    /\ formClasses = {}
    /\ fetches = <<>>
    /\ sinceSubmit = "none"
    /\ last = Did("none")
    /\ call = NoCall
    /\ reset = NoReset

Next ==
    \/ Construct
    \/ \E i \in 1..Len(fields), v \in Values : Input(i, v)
    \/ \E i \in 1..Len(fields) : FieldEvent(i)
    \/ ValidateForm
    \/ Submit
    \/ Reset

Spec == Init /\ [][Next]_vars

(***************************************************************************)
(* The validator and its message loads: a form of one required field       *)
(***************************************************************************)
FormOne == <<Control("input", "text", IdUser, IdUser, [required |-> <<>>], <<>>)>>

InitLoad ==
    /\ pc = "start"
    /\ settingsArg \in {ArgEmpty, ArgMessages}
    /\ settings = Undef
    /\ messages = DefaultMessages
    /\ fields = FormOne
    /\ tracked = <<>>
    /\ errorNodes = EmptyMap
    /\ formClasses = {}
    /\ fetches = <<>>
    /\ sinceSubmit = "none"
    /\ last = Did("none")
    /\ call = NoCall
    /\ reset = NoReset

NextLoad ==
    \/ Construct
    \/ \E v \in Values : Input(1, v)
    \/ FieldEvent(1)
    \/ \E resp \in Responses : LoadMessages(resp)
    \/ \E k \in 1..MaxFetches : FetchResolve(k)
    \/ \E k \in 1..MaxFetches : FetchReject(k)

SpecLoad == InitLoad /\ [][NextLoad]_vars

(***************************************************************************)
(* validateField on one control: the control is drawn from the kinds of    *)
(* control, the attributes and the values below                            *)
(***************************************************************************)
FieldKinds ==
    {<<"input", "text">>, <<"input", "email">>, <<"input", "tel">>,
     <<"input", "url">>, <<"input", "date">>, <<"input", "number">>,
     <<"input", "file">>, <<"input", "checkbox">>,
     <<"textarea", "textarea">>, <<"select", "select-one">>}

\* an attribute that is absent, or present with the value v
Optional(a, v) == {NoAttrs, a :> v}

FieldAttrs ==
    {r @@ m @@ nl @@ xl @@ n @@ x @@ pt :
        r \in Optional("required", <<>>),
        m \in Optional("data-error-message", <<"Oops">>),
        nl \in Optional("minlength", <<"2">>),
        xl \in Optional("maxlength", <<"3">>),
        n \in Optional("min", <<"2">>),
        x \in Optional("max", <<"5">>),
        pt \in Optional("pattern", <<"^", "[a-z]", "+", "$">>)}

FieldValues == {<<>>, <<"a", "b">>, <<"4">>, <<"a", "b", "c", "d", "e", "f">>}

SampleFields ==
    {Control(k[1], k[2], IdUser, IdUser, a, v) :
        k \in FieldKinds, a \in FieldAttrs, v \in FieldValues}

InitField ==
    /\ pc = "start"
    /\ settingsArg \in {ArgEmpty, ArgRules}
    /\ settings = Undef
    /\ messages = DefaultMessages
    /\ fields \in {<<f>> : f \in SampleFields}
    /\ tracked = <<>>
    /\ errorNodes = EmptyMap
    /\ formClasses = {}
    /\ fetches = <<>>
    /\ sinceSubmit = "none"
    /\ last = Did("none")
    /\ call = NoCall
    /\ reset = NoReset

NextField ==
    \/ Construct
    \/ FieldEvent(1)

SpecField == InitField /\ [][NextField]_vars

(***************************************************************************)
(* The error element across repeated validations of one required control: *)
(* the control is a text input or a checkbox, with the id user, no id, or  *)
(* an id that holds a dot                                                  *)
(***************************************************************************)
\* the most error elements created under one id
MaxCreated == 3

IdDotted == <<"a", ".", "b">>

\* an errorPlacement callback, which inserts the element into the document
ArgPlacement ==
    Obj([errorPlacement |-> Fn("place"),
         errorFieldClass |-> Str(<<"is-invalid">>)])

NodeForms ==
    {<<Control("input", t, id, IdUser, [required |-> <<>>], <<>>)>> :
        t \in {"text", "checkbox"}, id \in {IdUser, <<>>, IdDotted}}

InitNode ==
    /\ pc = "start"
    /\ settingsArg \in {ArgEmpty, ArgPlacement}
    /\ settings = Undef
    /\ messages = DefaultMessages
    /\ fields \in NodeForms
    /\ tracked = <<>>
    /\ errorNodes = EmptyMap
    /\ formClasses = {}
    /\ fetches = <<>>
    /\ sinceSubmit = "none"
    /\ last = Did("none")
    /\ call = NoCall
    /\ reset = NoReset

NextNode ==
    \/ Construct
    \/ \E v \in Values : Input(1, v)
    \/ Toggle(1)
    \/ /\ \A id \in DOMAIN errorNodes : errorNodes[id].created < MaxCreated
       /\ FieldEvent(1)

SpecNode == InitNode /\ [][NextNode]_vars

(***************************************************************************)
(* An equalTo rule: the second control of the form, of at least two        *)
(* characters, is declared equal to the control that the selector of the   *)
(* rule names                                                              *)
(***************************************************************************)
SelUser == <<"#">> \o IdUser
SelNobody == <<"#", "n", "o", "b", "o", "d", "y">>

\* settings that declare one equalTo rule on the control mail
ArgEqualTo(target, msg) ==
    Obj([fields |-> Arr("0" :> Obj([name |-> Str(IdMail),
                                   rules |-> Arr("0" :> Obj([method |-> Str(<<"equalTo">>),
                                                            field |-> target,
                                                            errorMessage |-> msg]))]))])

EqualToArgs ==
    {ArgEqualTo(t, m) : t \in {Str(SelUser), Str(SelNobody), Null},
                        m \in {Null, Str(<<"Mismatch">>)}}

EqualForms ==
    {<<Control("input", "text", IdUser, IdUser, NoAttrs, <<>>),
       Control("input", "text", IdMail, IdMail, [minlength |-> <<"2">>] @@ a, <<>>)>> :
        a \in Optional("data-error-message", <<"Oops">>)}

InitEqual ==
    /\ pc = "start"
    /\ settingsArg \in EqualToArgs
    /\ settings = Undef
    /\ messages = DefaultMessages
    /\ fields \in EqualForms
    /\ tracked = <<>>
    /\ errorNodes = EmptyMap
    /\ formClasses = {}
    /\ fetches = <<>>
    /\ sinceSubmit = "none"
    /\ last = Did("none")
    /\ call = NoCall
    /\ reset = NoReset

NextEqual ==
    \/ Construct
    \/ \E i \in 1..Len(fields), v \in Values : Input(i, v)
    \/ \E i \in 1..Len(fields) : FieldEvent(i)

SpecEqual == InitEqual /\ [][NextEqual]_vars

(***************************************************************************)
(* A group of required radio buttons or checkboxes that share the name     *)
(* plan                                                                    *)
(***************************************************************************)
NamePlan == <<"p", "l", "a", "n">>

GroupForms ==
    {<<Control("input", t, <<"p", "1">>, NamePlan, [required |-> <<>>], <<"a">>),
       Control("input", t, <<"p", "2">>, NamePlan, [required |-> <<>>], <<"b">>),
       Control("input", t, <<"p", "3">>, NamePlan, [required |-> <<>>], <<"c">>)>> :
        t \in {"radio", "checkbox"}}

InitGroup ==
    /\ pc = "start"
    /\ settingsArg \in {ArgEmpty, ArgHandler}
    /\ settings = Undef
    /\ messages = DefaultMessages
    /\ fields \in GroupForms
    /\ tracked = <<>>
    /\ errorNodes = EmptyMap
    /\ formClasses = {}
    /\ fetches = <<>>
    /\ sinceSubmit = "none"
    /\ last = Did("none")
    /\ call = NoCall
    /\ reset = NoReset

NextGroup ==
    \/ Construct
    \/ \E i \in 1..Len(fields) : Toggle(i)
    \/ \E i \in 1..Len(fields) : FieldEvent(i)

SpecGroup == InitGroup /\ [][NextGroup]_vars


(***************************************************************************)
(* deepMerge as a function of its arguments: the heap holds a base object  *)
(* (cell 1) with two sub-objects (cells 2 and 3) and an override object    *)
(* (cell 4) with one sub-object (cell 5); a key of the override holds a    *)
(* scalar, the sub-object or the override itself.                          *)
(***************************************************************************)
Absent == [t |-> "absent"]

\* the object literal with the given keys, a key of value Absent left out
RECURSIVE Literal(_, _)
Literal(cell, pairs) ==
    IF pairs = <<>> THEN cell
    ELSE Literal(IF Head(pairs)[2] = Absent THEN cell
                 ELSE SetKey(cell, Head(pairs)[1], Head(pairs)[2]),
                 Tail(pairs))

BaseSlots == {Absent, Num(1), Ref(2), Ref(3)}
OverrideSlots == {Absent, Null, Num(7), Fn("f"), Ref(5), Ref(4)}
SampleHeaps ==
    {<<Literal(Cell(FALSE), <<<<"p", bp>>, <<"q", bq>>>>),
       Literal(Cell(FALSE), <<<<"m", Num(1)>>>>),
       Literal(Cell(TRUE), <<<<"0", Num(2)>>, <<"1", Null>>>>),
       Literal(Cell(FALSE), <<<<"p", op>>, <<"q", oq>>>>),
       Literal(Cell(FALSE), <<<<"m", om>>, <<"x", ox>>>>)>> :
        bp \in BaseSlots, bq \in BaseSlots,
        op \in OverrideSlots, oq \in OverrideSlots,
        om \in {Absent, Null}, ox \in {Num(1), Ref(4), Ref(5)}}
SampleArgs == {<<Ref(1), Ref(4)>>, <<Ref(1), Ref(1)>>, <<Ref(4), Ref(4)>>}

InitMerge ==
    /\ pc = "start"
    /\ settingsArg = ArgEmpty
    /\ settings = Undef
    /\ messages = DefaultMessages
    /\ fields = <<>>
    /\ tracked = <<>>
    /\ errorNodes = EmptyMap
    /\ formClasses = {}
    /\ fetches = <<>>
    /\ sinceSubmit = "none"
    /\ last = Did("none")
    /\ reset = NoReset
    /\ \E h \in SampleHeaps, args \in SampleArgs :
          call = [NoCall EXCEPT !.phase = "called", !.h = h,
                                !.obj1 = args[1], !.obj2 = args[2]]

\* deepMerge(obj1, obj2) runs to its end
DeepMerge ==
    /\ call.phase = "called"
    /\ \E r \in {deepMergeHeap(call.h, call.obj1, call.obj2)} :
          call' = [call EXCEPT !.phase = IF r.st.ok THEN "returned" ELSE "threw",
                               !.after = r.st.h, !.seen = r.st.seen, !.v = r.v]
    /\ UNCHANGED <<reset, pc, settingsArg, settings, messages, fields, tracked,
                   errorNodes, formClasses, fetches, sinceSubmit, last>>

NextMerge == DeepMerge

SpecMerge == InitMerge /\ [][NextMerge]_vars


(***************************************************************************)
(* Declared rules with custom predicates: one text or email input and up   *)
(* to MaxRules rules declared for its name                                 *)
(***************************************************************************)
MaxRules == 2

PredicateRule(fn, msg) == Obj([method |-> Fn(fn), errorMessage |-> msg])

RulePool ==
    {PredicateRule("accept", Null),
     PredicateRule("reject", Null),
     PredicateRule("reject", Str(<<"Bad">>)),
     PredicateRule("notAdmin", Str(<<"Taken">>)),
     PredicateRule("throws", Null)}

RuleLists == UNION {[1..n -> RulePool] : n \in 0..MaxRules}

\* the array literal with the elements of seq
ArrayOf(seq) == Arr([k \in {IndexKeys[j] : j \in 1..Len(seq)} |->
                        seq[CHOOSE j \in 1..Len(seq) : IndexKeys[j] = k]])

ArgRuleList(rules) ==
    Obj([fields |-> ArrayOf(<<Obj([name |-> Str(IdUser), rules |-> ArrayOf(rules)])>>)])

RuleValues ==
    {<<>>, <<"a">>, <<"a", "b">>, <<"a", "d", "m", "i", "n">>, <<"4", "2">>}

RuleFields ==
    {Control("input", type, IdUser, IdUser, r @@ m @@ nl @@ pt, v) :
        type \in {"text", "email"},
        r \in Optional("required", <<>>),
        m \in Optional("data-error-message", <<"Oops">>),
        nl \in Optional("minlength", <<"2">>),
        pt \in Optional("pattern", <<"^", "[a-z]", "+", "$">>),
        v \in RuleValues}

InitRules ==
    /\ pc = "start"
    /\ settingsArg \in {ArgRuleList(rs) : rs \in RuleLists}
    /\ settings = Undef
    /\ messages = DefaultMessages
    /\ fields \in {<<f>> : f \in RuleFields}
    /\ tracked = <<>>
    /\ errorNodes = EmptyMap
    /\ formClasses = {}
    /\ fetches = <<>>
    /\ sinceSubmit = "none"
    /\ last = Did("none")
    /\ call = NoCall
    /\ reset = NoReset

NextRules ==
    \/ Construct
    \/ FieldEvent(1)

SpecRules == InitRules /\ [][NextRules]_vars


(***************************************************************************)
(* Declared minlength, maxlength and rangelength rules: one text or number *)
(* input and one rule whose parameters range over 0..MaxParam              *)
(***************************************************************************)
MaxParam == 2

ParamRules ==
    {Obj([method |-> Str(<<"rangelength">>), min |-> Num(a), max |-> Num(b)]) :
        a \in 0..MaxParam, b \in 0..MaxParam}
    \cup {Obj([method |-> Str(<<"minlength">>), min |-> Num(a)]) : a \in 0..MaxParam}
    \cup {Obj([method |-> Str(<<"maxlength">>), max |-> Num(b)]) : b \in 0..MaxParam}

ParamValues == {<<>>, <<"1">>, <<"4">>, <<"a", "b">>, <<"a", "b", "c">>}

ParamFields ==
    {Control("input", type, IdUser, IdUser, NoAttrs, v) :
        type \in {"text", "number"}, v \in ParamValues}

InitParam ==
    /\ pc = "start"
    /\ settingsArg \in {ArgRuleList(<<rule>>) : rule \in ParamRules}
    /\ settings = Undef
    /\ messages = DefaultMessages
    /\ fields \in {<<f>> : f \in ParamFields}
    /\ tracked = <<>>
    /\ errorNodes = EmptyMap
    /\ formClasses = {}
    /\ fetches = <<>>
    /\ sinceSubmit = "none"
    /\ last = Did("none")
    /\ call = NoCall
    /\ reset = NoReset

NextParam ==
    \/ Construct
    \/ FieldEvent(1)

SpecParam == InitParam /\ [][NextParam]_vars


(***************************************************************************)
(* validDate on one date input: the value and the min and max attributes   *)
(* are dates, the date of timestamp 0, strings that do not parse, or empty *)
(***************************************************************************)
Epoch == <<"1", "9", "7", "0", "-", "0", "1", "-", "0", "1">>
May10 == <<"2", "0", "2", "4", "-", "0", "5", "-", "1", "0">>
May15 == <<"2", "0", "2", "4", "-", "0", "5", "-", "1", "5">>
May20 == <<"2", "0", "2", "4", "-", "0", "5", "-", "2", "0">>
NotADate == <<"s", "o", "o", "n">>

DateFields ==
    {Control("input", "date", IdUser, IdUser, n @@ x, v) :
        n \in {NoAttrs} \cup {"min" :> b : b \in {<<>>, NotADate, Epoch, May10}},
        x \in {NoAttrs} \cup {"max" :> b : b \in {<<>>, NotADate, May15}},
        v \in {<<>>, NotADate, Epoch, May10, May20}}

InitDate ==
    /\ pc = "start"
    /\ settingsArg = ArgEmpty
    /\ settings = Undef
    /\ messages = DefaultMessages
    /\ fields \in {<<f>> : f \in DateFields}
    /\ tracked = <<>>
    /\ errorNodes = EmptyMap
    /\ formClasses = {}
    /\ fetches = <<>>
    /\ sinceSubmit = "none"
    /\ last = Did("none")
    /\ call = NoCall
    /\ reset = NoReset

NextDate ==
    \/ Construct
    \/ FieldEvent(1)

SpecDate == InitDate /\ [][NextDate]_vars


(***************************************************************************)
(* Configuration errors: an equalTo rule on the second control whose       *)
(* selector matches the first control, matches nothing or does not parse,  *)
(* and a second control whose id gives a selector that does not parse      *)
(***************************************************************************)
SelBroken == <<"#", "1">>
IdDigit == <<"2", "f", "a">>

ConfigArgs ==
    {ArgEqualTo(t, Null) : t \in {Str(SelUser), Str(SelNobody), Str(SelBroken), Null}}

ConfigForms ==
    {<<Control("input", "text", IdUser, IdUser, NoAttrs, <<>>),
       Control("input", "text", id, IdMail, NoAttrs, <<>>)>> : id \in {IdMail, IdDigit}}

InitConfig ==
    /\ pc = "start"
    /\ settingsArg \in ConfigArgs
    /\ settings = Undef
    /\ messages = DefaultMessages
    /\ fields \in ConfigForms
    /\ tracked = <<>>
    /\ errorNodes = EmptyMap
    /\ formClasses = {}
    /\ fetches = <<>>
    /\ sinceSubmit = "none"
    /\ last = Did("none")
    /\ call = NoCall
    /\ reset = NoReset

NextConfig ==
    \/ Construct
    \/ \E i \in 1..Len(fields), v \in {<<>>, <<"a", "b">>} : Input(i, v)
    \/ \E i \in 1..Len(fields) : FieldEvent(i)
    \/ ValidateForm

SpecConfig == InitConfig /\ [][NextConfig]_vars


(***************************************************************************)
(* The types with a check of their own: one email, tel, url, date or file  *)
(* input that holds a value its type accepts or a value it rejects, with   *)
(* every subset of the length attributes, with and without a declared      *)
(* minlength rule                                                          *)
(***************************************************************************)
TypedSamples ==
    {<<"email", <<"a", "@", "b", ".", "c", "o">>, 0>>, <<"email", <<"a", "b">>, 0>>,
     <<"tel", <<"1", "2", "3", "4", "5", "6">>, 0>>, <<"tel", <<"a", "b">>, 0>>,
     <<"url", <<"f", "t", "p", ":", "/", "/", "a", ".", "c", "o">>, 0>>, <<"url", <<"a", "b">>, 0>>,
     <<"date", May10, 0>>, <<"date", NotADate, 0>>,
     <<"file", <<"f">>, 1>>, <<"file", <<"f">>, 0>>}

LengthAttrs ==
    {nl @@ xl @@ n @@ x :
        nl \in Optional("minlength", <<"2">>),
        xl \in Optional("maxlength", <<"3">>),
        n \in Optional("min", <<"2">>),
        x \in Optional("max", <<"5">>)}

TypedFields ==
    {[Control("input", t[1], IdUser, IdUser, a, t[2]) EXCEPT !.files = t[3]] :
        t \in TypedSamples, a \in LengthAttrs}

ArgMinlengthRule ==
    ArgRuleList(<<Obj([method |-> Str(<<"minlength">>), min |-> Num(9)])>>)

InitTyped ==
    /\ pc = "start"
    /\ settingsArg \in {ArgEmpty, ArgMinlengthRule}
    /\ settings = Undef
    /\ messages = DefaultMessages
    /\ fields \in {<<f>> : f \in TypedFields}
    /\ tracked = <<>>
    /\ errorNodes = EmptyMap
    /\ formClasses = {}
    /\ fetches = <<>>
    /\ sinceSubmit = "none"
    /\ last = Did("none")
    /\ call = NoCall
    /\ reset = NoReset

NextTyped ==
    \/ Construct
    \/ FieldEvent(1)

SpecTyped == InitTyped /\ [][NextTyped]_vars


(***************************************************************************)
(* Length attributes that are not numbers: one text input on which each    *)
(* of minlength, maxlength, min and max is absent, all digits, or not      *)
(***************************************************************************)
NotDigits == <<"2", "x">>

\* an attribute that is absent, present with the digits v, or present
\* with a value that is not all digits
Loose(a, v) == {NoAttrs, a :> v, a :> NotDigits}

LooseFields ==
    {Control("input", "text", IdUser, IdUser, nl @@ xl @@ n @@ x, v) :
        nl \in Loose("minlength", <<"2">>),
        xl \in Loose("maxlength", <<"3">>),
        n \in Loose("min", <<"3">>),
        x \in Loose("max", <<"5">>),
        v \in FieldValues}

InitLoose ==
    /\ pc = "start"
    /\ settingsArg = ArgEmpty
    /\ settings = Undef
    /\ messages = DefaultMessages
    /\ fields \in {<<f>> : f \in LooseFields}
    /\ tracked = <<>>
    /\ errorNodes = EmptyMap
    /\ formClasses = {}
    /\ fetches = <<>>
    /\ sinceSubmit = "none"
    /\ last = Did("none")
    /\ call = NoCall
    /\ reset = NoReset

NextLoose ==
    \/ Construct
    \/ FieldEvent(1)

SpecLoose == InitLoose /\ [][NextLoose]_vars


(***************************************************************************)
(* Resets, call by call: the login form is filled, submitted and reset by  *)
(* its reset button or by a call of resetForm.  A handling in progress     *)
(* runs to its end before anything else happens, hence the fairness.       *)
(***************************************************************************)
ResetValues == {<<>>, <<"a", "b">>}

InitReset ==
    /\ pc = "start"
    /\ settingsArg \in {ArgEmpty, ArgHandler}
    /\ settings = Undef
    /\ messages = DefaultMessages
    /\ fields = FormLogin
    /\ tracked = <<>>
    /\ errorNodes = EmptyMap
    /\ formClasses = {}
    /\ fetches = <<>>
    /\ sinceSubmit = "none"
    /\ last = Did("none")
    /\ call = NoCall
    /\ reset = NoReset

NextReset ==
    \/ Construct
    \/ \E i \in 1..Len(fields), v \in ResetValues : Idle /\ Input(i, v)
    \/ Idle /\ Submit
    \/ ResetButton
    \/ CallResetForm
    \/ ResetStep

SpecReset == InitReset /\ [][NextReset]_vars /\ WF_vars(ResetStep)

(***************************************************************************)
(* Properties                                                              *)
(***************************************************************************)
\* the names of the checks an evaluation ran, in order
StepNames(steps) == [k \in 1..Len(steps) |-> steps[k].name]

\* the template the caller supplied for message kind k, undefined when none
Supplied(k) == Get(Get(settingsArg, "messages"), k)

\* C1: for every message kind the caller supplies in settings.messages at
\* construction, the catalog entry validateField uses is the caller's
\* template, and every other kind keeps the library default; a required
\* failure without a custom message shows the entry of kind required.
C1CallerTemplates ==
    pc = "bound" =>
        /\ \A k \in MessageKeys :
              Get(messages, k) = IF Supplied(k) # Undef THEN Supplied(k)
                                 ELSE Get(DefaultMessages, k)
        /\ (/\ last.op = "validateField"
            /\ StepNames(last.steps) = <<"required">>
            /\ ~last.isValid
            /\ ~hasAttribute(fields[last.field], "data-error-message"))
           => last.message = IF Supplied("required") # Undef THEN Supplied("required")
                             ELSE Get(DefaultMessages, "required")

\* the caller supplied a template for required and the catalog of the
\* constructed validator holds the library default
C1Overridden ==
    /\ pc = "bound"
    /\ Supplied("required") = UserRequired
    /\ Get(messages, "required") = Get(DefaultMessages, "required")
    /\ last.op = "validateField"
    /\ StepNames(last.steps) = <<"required">>
    /\ last.message = Get(DefaultMessages, "required")

\* C2: a construction with the settings argument omitted completes without
\* throwing, leaves the effective settings equal to the defaults and runs
\* init, which tracks the controls of the form.
C2OmittedSettings ==
    (settingsArg = Undef /\ pc # "start") =>
        /\ pc = "bound"
        /\ ~last.threw
        /\ settings = DefaultSettings(DefaultMessages)
        /\ tracked = Discover(fields, settings)

\* the construction with the settings argument omitted ended by an
\* exception, before init
C2Threw ==
    /\ settingsArg = Undef
    /\ pc = "threw"
    /\ last.threw
    /\ settings = Undef
    /\ tracked = <<>>

\* a required control that is no checkbox or radio, with an empty value,
\* has just been evaluated
C3Case ==
    /\ last.op = "validateField"
    /\ hasAttribute(fields[last.field], "required")
    /\ fields[last.field].type \notin {"checkbox", "radio"}
    /\ fields[last.field].value = <<>>

\* C3: validateField on a required control that is no checkbox or radio and
\* has an empty value returns false; the message shown in the error element
\* is the custom data-error-message when one is set and the catalog entry
\* required otherwise; the required check is the only check that ran and no
\* custom predicate was called.
C3RequiredEmpty ==
    C3Case =>
        LET field == fields[last.field]
            shown == IF Truthy(DatasetErrorMessage(field))
                     THEN DatasetErrorMessage(field)
                     ELSE Get(messages, "required")
            id == ErrorHelpId(field)
        IN /\ ~last.isValid
           /\ ~last.threw
           /\ last.message = shown
           /\ id \in DOMAIN errorNodes
           /\ errorNodes[id].text = shown
           /\ errorNodes[id].display = ""
           /\ StepNames(last.steps) = <<"required">>
           /\ last.calls = <<>>

\* a required empty control of each message source was evaluated
C3Witness ==
    /\ C3Case
    /\ ~last.isValid
    /\ fields[last.field].type = "email"
    /\ hasAttribute(fields[last.field], "pattern")
    /\ ~hasAttribute(fields[last.field], "data-error-message")
    /\ RulesFor(settings, fields[last.field].name) # <<>>

\* a control that is not required, with an empty value, no pattern and no
\* declared rule, has just been evaluated
C4Case ==
    /\ last.op = "validateField"
    /\ ~hasAttribute(fields[last.field], "required")
    /\ fields[last.field].value = <<>>
    /\ PatternOf(fields[last.field]) = <<>>
    /\ RulesFor(settings, fields[last.field].name) = <<>>

\* C4: validateField on a control that is not required, has an empty value,
\* no pattern and no declared rule returns true, whatever the type and the
\* numeric attributes of the control, and leaves its error element hidden
\* (display none).
C4OptionalEmpty ==
    C4Case =>
        LET id == ErrorHelpId(fields[last.field])
        IN /\ last.isValid
           /\ ~last.threw
           /\ last.steps = <<>>
           /\ id \in DOMAIN errorNodes
           /\ errorNodes[id].display = "none"

\* an optional empty email control with length attributes was evaluated
C4Witness ==
    /\ C4Case
    /\ fields[last.field].type = "email"
    /\ hasAttribute(fields[last.field], "minlength")
    /\ hasAttribute(fields[last.field], "min")
    /\ last.isValid

\* what validateField returns on the tracked control at position k of the
\* current form
Verdict(k) == validateField(tracked[k], fields, errorNodes, settings, messages)

\* C5 as stated: validateForm calls validateField once on every tracked
\* control, in discovery order, also after an earlier control failed, and
\* returns true exactly when every call returned true.
C5VisitsEveryField ==
    last.op = "validateForm" =>
        /\ last.visited = tracked
        /\ Len(last.verdicts) = Len(tracked)
        /\ last.isValid = (\A k \in 1..Len(last.verdicts) : last.verdicts[k])

\* C5: when no evaluation throws, validateForm calls validateField once on
\* every tracked control, in discovery order, also after an earlier control
\* failed, and returns true exactly when every call returned true; when an
\* evaluation throws, the controls up to that one were visited in order,
\* the later ones were not, and validateForm returns nothing.
C5VisitsEveryFieldUnlessThrown ==
    last.op = "validateForm" =>
        IF last.threw
        THEN /\ Len(last.visited) \in 1..Len(tracked)
             /\ last.visited = SubSeq(tracked, 1, Len(last.visited))
             /\ Len(last.verdicts) = Len(last.visited) - 1
             /\ Verdict(Len(last.visited)).threw
        ELSE /\ last.visited = tracked
             /\ Len(last.verdicts) = Len(tracked)
             /\ \A k \in 1..Len(tracked) : last.verdicts[k] = Verdict(k).isValid
             /\ last.isValid = (\A k \in 1..Len(last.verdicts) : last.verdicts[k])

\* validateForm went on to the second control after the first one failed
C5Witness ==
    /\ last.op = "validateForm"
    /\ ~last.threw
    /\ Len(last.verdicts) = 2
    /\ ~last.verdicts[1]
    /\ last.verdicts[2]
    /\ ~last.isValid

\* every tracked control of the current form is valid
AllValid == \A k \in 1..Len(tracked) : ~Verdict(k).threw /\ Verdict(k).isValid

\* C6: on a submit event the default submission is prevented and the whole
\* form is validated; the submitHandler when one is configured, and the
\* native submit otherwise, is invoked once and only when every tracked
\* control is valid; the native submit is never invoked when a
\* submitHandler is configured; neither is invoked when a control is
\* invalid.
C6SubmitDefers ==
    last.op = "submit" =>
        LET handler == Truthy(Get(settings, "submitHandler"))
        IN /\ last.prevented
           /\ last.visited # <<>>
           /\ ~last.threw => last.visited = tracked
           /\ last.handlerCalls = IF AllValid /\ handler THEN 1 ELSE 0
           /\ last.nativeCalls = IF AllValid /\ ~handler THEN 1 ELSE 0

\* a submit of a form with an invalid control, with a handler configured
C6Witness ==
    /\ last.op = "submit"
    /\ Truthy(Get(settings, "submitHandler"))
    /\ ~AllValid
    /\ last.handlerCalls = 0

\* C7: the form carries validFormClass only if the most recent submit
\* found every tracked control valid and no reset has happened since, also
\* after a submit that a throwing custom predicate aborted.
C7ValidMarker ==
    (/\ pc = "bound"
     /\ Truthy(Get(settings, "validFormClass"))
     /\ Get(settings, "validFormClass").v \in formClasses)
    => sinceSubmit = "valid"

\* a submit that a throwing custom predicate aborted has left the class
C7AbortedMarked ==
    /\ sinceSubmit = "aborted"
    /\ last.op = "submit"
    /\ last.threw
    /\ Get(settings, "validFormClass").v \in formClasses

\* the messages object of the response a resolved fetch carried
Loaded == Get(last.data, "messages")

\* C8: after a fetch of loadMessages resolves with a messages object, the
\* catalog entry of every key of that object equals the loaded value, and
\* every other key keeps its previous value.
C8LoadedOnTop ==
    [][(last'.op = "fetchResolve" /\ IsObject(Loaded'))
       => \A k \in Keys(messages) \cup Keys(Loaded') :
             Get(messages', k) = IF k \in Keys(Loaded') THEN Get(Loaded', k)
                                 ELSE Get(messages, k)]_vars

\* a response that carries a template for required has resolved and the
\* catalog still holds the library default
C8LoadedIgnored ==
    /\ last.op = "fetchResolve"
    /\ Get(Loaded, "required") = UserRequired
    /\ Get(messages, "required") = Get(DefaultMessages, "required")

\* C9: once the validator is constructed the catalog changes only in the
\* step in which a fetch resolves with a messages entry; a call of
\* loadMessages, a pending fetch, a rejected fetch, an unparseable response
\* and a response without messages leave it unchanged, and neither the
\* call nor a callback of the fetch raises anything.
C9CatalogChangesOnResolve ==
    [][/\ (pc = "bound" /\ messages' # messages)
          => (last'.op = "fetchResolve" /\ Truthy(Loaded'))
       /\ last'.op \in {"loadMessages", "fetchResolve", "fetchReject"}
          => ~last'.threw]_vars

\* a fetch was rejected while another one was in flight, after a load had
\* changed the catalog
C9Witness ==
    /\ last.op = "fetchReject"
    /\ last.logged
    /\ fetches # <<>>
    /\ messages # DefaultMessages

\* C10: after construction and after any loadMessages resolutions, every
\* message key of the default catalog is present in the catalog that
\* validateField reads.
C10DefaultKeysPresent ==
    pc = "bound" => \A k \in MessageKeys : k \in Keys(messages)

\* a response whose messages object holds a null entry has been loaded
C10Witness ==
    /\ last.op = "fetchResolve"
    /\ IsObject(Loaded)
    /\ Get(Loaded, "required") = Null

\* C11: across the validateField calls on a control, the error element
\* whose id is the id of the control (its name for a checkbox or radio, or
\* when it has no id) followed by -error is created at most once and never
\* removed; after each call it is visible with the resolved message as its
\* text when the verdict is false and hidden (display none) when the
\* verdict is true.
C11NodeOnce ==
    [][/\ \A id \in DOMAIN errorNodes : id \in DOMAIN errorNodes'
       /\ \A id \in DOMAIN errorNodes' : errorNodes'[id].created <= 1
       /\ last'.op = "validateField" =>
             LET id == ErrorHelpId(fields'[last'.field])
             IN /\ id \in DOMAIN errorNodes'
                /\ IF last'.isValid
                   THEN errorNodes'[id].display = "none"
                   ELSE /\ errorNodes'[id].display = ""
                        /\ errorNodes'[id].text = last'.message]_vars

\* a second error element was created under the same id for a control
\* found invalid, and none shows the message
C11Recreated ==
    /\ last.op = "validateField"
    /\ ~last.threw
    /\ ~last.isValid
    /\ fields[last.field].id = IdDotted
    /\ errorNodes[ErrorHelpId(fields[last.field])].created = 2
    /\ errorNodes[ErrorHelpId(fields[last.field])].text # last.message

\* the control with the equalTo rule, holding a value, has just been
\* evaluated and every check before the rule passed
C12Case ==
    /\ last.op = "validateField"
    /\ fields[last.field].name = IdMail
    /\ fields[last.field].value # <<>>
    /\ \A k \in 1..Len(last.steps) :
          last.steps[k].name # "equalTo" => last.steps[k].isValid

\* the equalTo rule declared on the control mail
EqualRule == RulesFor(settings, IdMail)[1]

\* the position of the control the selector of the rule resolves to, 0
\* when the rule names no control or the selector matches nothing
EqualTarget ==
    IF Truthy(Get(EqualRule, "field"))
    THEN FormQuerySelector(fields, Get(EqualRule, "field").v) ELSE 0

\* the message of the rule: its errorMessage when given, else equalTo
EqualMessage ==
    IF Truthy(Get(EqualRule, "errorMessage"))
    THEN Get(EqualRule, "errorMessage") ELSE Get(messages, "equalTo")

\* C12 as stated: for a control with an equalTo rule, a value and every
\* earlier check passing, when the selector resolves to a control of the
\* form the verdict is true exactly when the two values are equal, and the
\* message of a failure is the errorMessage of the rule when given, else
\* the catalog entry equalTo; when the selector matches nothing or the
\* rule names no control the rule leaves the verdict unchanged.
C12EqualTo ==
    C12Case =>
        IF EqualTarget # 0
        THEN /\ last.isValid = (fields[last.field].value = fields[EqualTarget].value)
             /\ ~last.isValid => last.message = EqualMessage
        ELSE last.isValid

\* C12: as above, except that the message of a failure is the
\* data-error-message of the control when it carries one, and only
\* otherwise the errorMessage of the rule or the catalog entry equalTo.
C12EqualToUnlessCustom ==
    C12Case =>
        IF EqualTarget # 0
        THEN /\ ~last.threw
             /\ last.isValid = (fields[last.field].value = fields[EqualTarget].value)
             /\ ~last.isValid =>
                   last.message = IF Truthy(DatasetErrorMessage(fields[last.field]))
                                  THEN DatasetErrorMessage(fields[last.field])
                                  ELSE EqualMessage
             /\ ~last.isValid =>
                   errorNodes[ErrorHelpId(fields[last.field])].text = last.message
        ELSE /\ last.isValid
             /\ \A k \in 1..Len(last.steps) : last.steps[k].name # "equalTo"

\* the two values differ and the rule brings its own message
C12Witness ==
    /\ C12Case
    /\ EqualTarget = 1
    /\ ~last.isValid
    /\ last.message = Str(<<"Mismatch">>)
    /\ fields[1].value # <<>>

\* the attributes of the evaluated control
Has(a) == hasAttribute(fields[last.field], a)

\* a control of a type without a check of its own, holding a value, whose
\* only bound is a minlength attribute, has just been evaluated
C13Case ==
    /\ last.op = "validateField"
    /\ fields[last.field].type \notin {"email", "tel", "url", "file", "date"}
    /\ Has("minlength") /\ ~Has("maxlength") /\ ~Has("min") /\ ~Has("max")
    /\ fields[last.field].value # <<>>

\* the control has no other constraint: the required check passed, it has
\* no pattern and no declared rule
C13Alone ==
    /\ \A k \in 1..Len(last.steps) :
          last.steps[k].name = "required" => last.steps[k].isValid
    /\ ~Has("pattern")
    /\ RulesFor(settings, fields[last.field].name) = <<>>

\* the catalog entry minlength with its placeholder replaced by 2
AtLeastTwo == Str(<<"Please enter at least ", "2", " characters.">>)

\* C13 as stated: for a control of a type other than email, tel, url,
\* file and date whose only bound is minlength="n" and whose value is not
\* empty, validateField returns true exactly when the measured length is
\* at least n, and the message of a failure is the catalog entry minlength
\* with its first placeholder replaced by n.
C13MinLength ==
    C13Case =>
        LET field == fields[last.field]
        IN /\ last.isValid =
                 NumGE(getLength(field.value, field, fields), Num(2))
           /\ ~last.isValid => last.message = AtLeastTwo

\* C13: for such a control that has no other constraint (the required
\* check passed, no pattern, no declared rule), validateField returns true
\* exactly when the measured length (the number of characters of a text
\* control) is at least n; the message of a failure is the
\* data-error-message of the control when it carries one, and otherwise
\* the catalog entry minlength with its first placeholder replaced by n.
C13MinLengthAlone ==
    (C13Case /\ C13Alone) =>
        LET field == fields[last.field]
        IN /\ ~last.threw
           /\ last.isValid =
                 NumGE(getLength(field.value, field, fields), Num(2))
           /\ field.type \in {"text", "textarea"} =>
                 last.isValid = (Len(field.value) >= 2)
           /\ ~last.isValid =>
                 last.message = IF Has("data-error-message")
                                THEN DatasetErrorMessage(field) ELSE AtLeastTwo

\* a text control of one character failed its minlength of two
C13Witness ==
    /\ C13Case /\ C13Alone
    /\ fields[last.field].type = "text"
    /\ fields[last.field].value = <<"4">>
    /\ ~last.isValid
    /\ last.message = AtLeastTwo

\* a text control with the attributes min and max, without minlength and
\* maxlength, holding a value, has just been evaluated
C14Case ==
    /\ last.op = "validateField"
    /\ fields[last.field].type \in {"text", "textarea"}
    /\ Has("min") /\ Has("max") /\ ~Has("minlength") /\ ~Has("maxlength")
    /\ fields[last.field].value # <<>>

\* the catalog entry range with its placeholders replaced by 2 and 5
BetweenTwoAndFive == Str(<<"Please enter a value between ", "2", " and ", "5">>)

C18NoFlipBack ==
    last.op = "validateField" =>
        \A j, k \in 1..Len(last.steps) :
            (j < k /\ ~last.steps[j].isValid) =>
                /\ ~last.steps[k].isValid
                /\ last.steps[k].errorMessage = last.steps[j].errorMessage

\* the minimum check failed, the maximum check set isValid back to true
\* and the range check replaced the message of the minimum check
C18Flipped ==
    /\ last.op = "validateField"
    /\ StepNames(last.steps) = <<"minimum", "maximum", "range">>
    /\ ~last.steps[1].isValid
    /\ last.steps[2].isValid
    /\ ~last.steps[3].isValid
    /\ last.steps[1].errorMessage = Str(<<"Please enter a value at least ", "2", ".">>)
    /\ last.message = BetweenTwoAndFive

\* a required member of the group plan has just been evaluated
C15Case ==
    /\ last.op = "validateField"
    /\ checkable(fields[last.field])
    /\ fields[last.field].name = NamePlan
    /\ Has("required")

\* some member of the group plan is checked
PlanChecked == \E k \in 1..Len(fields) : fields[k].name = NamePlan /\ fields[k].checked

\* C15: for a group of required radio buttons or checkboxes that share a
\* name, validateField returns false for each member while no member is
\* checked; when a member is checked the required check passes for each
\* member and errorFieldClass is removed from every member of the group,
\* not only from the one evaluated.
C15Group ==
    C15Case =>
        /\ ~last.threw
        /\ last.steps # <<>>
        /\ last.steps[1].name = "required"
        /\ last.steps[1].isValid = PlanChecked
        /\ ~PlanChecked =>
              /\ ~last.isValid
              /\ last.message = Get(messages, "required")
        /\ (PlanChecked /\ Truthy(Get(settings, "errorFieldClass"))) =>
              \A k \in 1..Len(fields) :
                  fields[k].name = NamePlan =>
                      Get(settings, "errorFieldClass").v \notin fields[k].classes

\* a member that is not checked was evaluated while another one is, with
\* an errorFieldClass configured
C15Witness ==
    /\ C15Case
    /\ Truthy(Get(settings, "errorFieldClass"))
    /\ ~fields[last.field].checked
    /\ PlanChecked
    /\ last.isValid
    /\ errorNodes[ErrorHelpId(fields[last.field])].display = "none"

\* C19: when two loadMessages calls are in flight at once and both
\* responses supply a value for the same key, the catalog entry of that
\* key after both have resolved is the value of the response that
\* resolved last, whichever resolves first.
C19LastResolvedWins ==
    [][(/\ last.op = "fetchResolve" /\ IsObject(Loaded)
        /\ last'.op = "fetchResolve" /\ IsObject(Loaded'))
       => \A k \in Keys(Loaded) \cap Keys(Loaded') :
             Get(messages', k) = Get(Loaded', k)]_vars

\* two responses that supply the key welcome have resolved one after the
\* other and the catalog holds the value of the one that resolved first
C19FirstResolvedKept ==
    /\ last.op = "fetchResolve"
    /\ fetches = <<>>
    /\ Get(Loaded, "welcome") = Str(<<"Willkommen">>)
    /\ Get(messages, "welcome") = Str(<<"Bienvenue">>)

\* the call of deepMerge has ended
Ended == call.phase \in {"returned", "threw"}

\* r is what the contract gives for override b over base a
RECURSIVE Obeys(_, _, _, _)
Obeys(h, a, b, r) ==
    IF ~IsRef(b) THEN r = b
    ELSE IF ~IsRef(a) THEN IsRef(r) /\ Unfold(h, r) = Unfold(h, b)
    ELSE /\ IsRef(r)
         /\ DOMAIN h[r.a].f = DOMAIN h[a.a].f \cup DOMAIN h[b.a].f
         /\ \A k \in DOMAIN h[r.a].f :
               IF GetH(h, b, k) = Undef
               THEN Unfold(h, GetH(h, r, k)) = Unfold(h, GetH(h, a, k))
               ELSE Obeys(h, GetH(h, a, k), GetH(h, b, k), GetH(h, r, k))

\* the arguments reach no cycle
C16Case ==
    /\ Ended
    /\ ~Cyclic(call.h, call.obj1, {})
    /\ ~Cyclic(call.h, call.obj2, {})

\* C16: deepMerge(base, override) obeys, at every key path of the result
\* and also when one sub-object of the override is reachable under
\* several keys: a scalar, null or function of the override replaces the
\* base value, a key absent from the override keeps a deep clone of the
\* base value, two objects give the key-by-key merge of exactly those
\* two, and neither input is mutated.
C16MergeContract ==
    C16Case =>
        /\ call.phase = "returned"
        /\ Obeys(call.after, call.obj1, call.obj2, call.v)
        /\ Reach(call.after, {call.v}, {}) \cap (1..Len(call.h)) = {}
        /\ SubSeq(call.after, 1, Len(call.h)) = call.h

\* the override holds one sub-object under p and under q, the base holds
\* an object under p and an array under q, and the result holds under q
\* the node it holds under p: the merge with the object, without the
\* elements of the array
C16SharedMergedOnce ==
    /\ C16Case
    /\ call.phase = "returned"
    /\ call.obj1 = Ref(1) /\ call.obj2 = Ref(4)
    /\ GetH(call.h, Ref(1), "p") = Ref(2) /\ GetH(call.h, Ref(1), "q") = Ref(3)
    /\ GetH(call.h, Ref(4), "p") = Ref(5) /\ GetH(call.h, Ref(4), "q") = Ref(5)
    /\ GetH(call.after, call.v, "q") = GetH(call.after, call.v, "p")
    /\ DOMAIN call.after[GetH(call.after, call.v, "q").a].f = {"m", "x"}

\* v reaches no cycle and no object along two paths
IsTree(h, v) ==
    /\ ~Cyclic(h, v, {})
    /\ \A n \in Reach(h, {v}, {}) :
          Cardinality({<<o, k>> \in Reach(h, {v}, {}) \X {"p", "q", "m", "x", "0", "1"} :
                          GetH(h, Ref(o), k) = Ref(n)}) = IF Ref(n) = v THEN 0 ELSE 1

C17Case ==
    /\ Ended
    /\ call.obj1 = call.obj2
    /\ IsTree(call.h, call.obj1)

\* C17: deepMerge is idempotent on self-merge: for every tree x of plain
\* objects, arrays, scalars and null, deepMerge(x, x) is structurally
\* equal to x.
C17SelfMerge ==
    C17Case =>
        /\ call.phase = "returned"
        /\ Unfold(call.after, call.v) = Unfold(call.h, call.obj1)

\* a tree with an object and an array below its root was merged with itself
C17Witness ==
    /\ C17Case
    /\ call.obj1 = Ref(1)
    /\ GetH(call.h, Ref(1), "p") = Ref(2)
    /\ GetH(call.h, Ref(1), "q") = Ref(3)
    /\ call.phase = "returned"

\* the object of cell n reaches itself
OnCycle(h, n) == n \in Reach(h, {h[n].f[k] : k \in DOMAIN h[n].f}, {})

\* the override reaches a cycle, the base does not
C20Case ==
    /\ Ended
    /\ ~Cyclic(call.h, call.obj1, {})
    /\ Cyclic(call.h, call.obj2, {})

\* C20: deepMerge terminates and returns a result for every override
\* that contains circular references, whatever the base holds at the
\* corresponding keys, a base with no object where the cycle re-enters
\* included; each cyclic object is merged once and every further
\* occurrence in the result is the node of its first merge result.
C20CyclicOverrideReturns ==
    C20Case =>
        /\ call.phase = "returned"
        /\ \A b \in DOMAIN call.seen : \A k \in DOMAIN call.h[b].f :
              LET c == call.h[b].f[k]
              IN (IsRef(c) /\ OnCycle(call.h, c.a)) =>
                    /\ c.a \in DOMAIN call.seen
                    /\ GetH(call.after, Ref(call.seen[b]), k) = Ref(call.seen[c.a])

\* the override holds itself under p, the base holds nothing under p,
\* and the call ended by exhausting the stack
C20CloneNeverReturns ==
    /\ C20Case
    /\ call.obj1 = Ref(1) /\ call.obj2 = Ref(4)
    /\ GetH(call.h, Ref(4), "p") = Ref(4)
    /\ GetH(call.h, Ref(1), "p") = Undef
    /\ call.phase = "threw"

\* the override holds itself under p, the base holds an object under p,
\* and the result holds itself under p
C20Aliased ==
    /\ C20Case
    /\ GetH(call.h, Ref(4), "p") = Ref(4)
    /\ call.phase = "returned"
    /\ GetH(call.after, call.v, "p") = call.v

\* the field that the last evaluation was about, and its declared rules
Evaluated == fields[last.field]
DeclaredRules == RulesFor(settings, Evaluated.name)

\* the steps of the last evaluation that are not declared rules all passed
\* on a non-empty value
BeforeRulesPassed ==
    /\ Evaluated.value # <<>>
    /\ \A k \in 1..Len(last.steps) :
          last.steps[k].name \in {"required", "minimum", "maximum", "range", "pattern",
                                  "email", "tel", "url", "file", "date"}
          => last.steps[k].isValid

\* the rules that a run in configuration order reaches: every rule up to
\* and including the first that does not pass
RECURSIVE Reached(_, _)
Reached(rules, field) ==
    IF rules = <<>> THEN <<>>
    ELSE <<Head(rules)>> \o
         (IF PredicateOutcome(Get(Head(rules), "method").v, field.value, field) = "true"
          THEN Reached(Tail(rules), field) ELSE <<>>)

\* the predicates invoked by the last evaluation are those of rs, in order,
\* each with the value and the field
InvokedAre(rs) ==
    /\ Len(last.calls) = Len(rs)
    /\ \A k \in 1..Len(rs) :
          last.calls[k] = [fn |-> Get(rs[k], "method").v,
                           value |-> Evaluated.value, field |-> last.field]

\* the text of the error element of the evaluated field
Shown == errorNodes[ErrorHelpId(Evaluated)].text

C21Case == pc = "bound" /\ last.op = "validateField"

\* the last rule reached returned false
C21Failed(rs) ==
    /\ rs # <<>>
    /\ PredicateOutcome(Get(rs[Len(rs)], "method").v, Evaluated.value, Evaluated) = "false"

\* C21: declared rules are evaluated in configuration order and only when
\* the value is non-empty and the required, type/length and pattern steps
\* passed; the k-th predicate is invoked, with value and field, iff rules
\* 1..k-1 passed; the message shown is the first failing rule's own
\* errorMessage if given, else the catalog entry remote.
C21RulesInOrder ==
    C21Case =>
        LET rs == IF BeforeRulesPassed THEN Reached(DeclaredRules, Evaluated) ELSE <<>>
        IN /\ InvokedAre(rs)
           /\ C21Failed(rs) =>
                 /\ ~last.isValid
                 /\ Shown = RuleMessage(rs[Len(rs)], Get(messages, "remote"))

\* C21, with the custom message of the field: the same order of
\* invocation, and the message shown for the first failing rule is the
\* field's data-error-message when it has one, else the rule's own
\* errorMessage if given, else the catalog entry remote.
C21RulesInOrderUnlessCustom ==
    C21Case =>
        LET rs == IF BeforeRulesPassed THEN Reached(DeclaredRules, Evaluated) ELSE <<>>
        IN /\ InvokedAre(rs)
           /\ C21Failed(rs) =>
                 /\ ~last.isValid
                 /\ Shown = IF hasAttribute(Evaluated, "data-error-message")
                            THEN Str(Evaluated.attrs["data-error-message"])
                            ELSE RuleMessage(rs[Len(rs)], Get(messages, "remote"))

\* two rules are declared, the first passed and the second failed with
\* its own message
C21Witness ==
    /\ C21Case
    /\ Len(DeclaredRules) = 2
    /\ Len(last.calls) = 2
    /\ ~last.isValid
    /\ ~hasAttribute(Evaluated, "data-error-message")
    /\ Shown = Str(<<"Taken">>)

\* the controls, the evaluated one without its data-error-message
WithoutCustom ==
    [k \in 1..Len(fields) |->
        IF k = last.field
        THEN [fields[k] EXCEPT !.attrs =
                 [a \in DOMAIN @ \ {"data-error-message"} |-> @[a]]]
        ELSE fields[k]]

\* C22: a per-field custom error message never changes the verdict:
\* validateField returns the same boolean with and without
\* data-error-message, and when the verdict is false and a custom message
\* is set the text shown is exactly the custom message, whichever step
\* failed and whatever errorMessage a declared rule carries.
C22CustomMessageOnly ==
    C21Case =>
        LET r == validateField(last.field, WithoutCustom, errorNodes, settings, messages)
        IN /\ r.isValid = last.isValid
           /\ r.threw = last.threw
           /\ (/\ hasAttribute(Evaluated, "data-error-message")
               /\ ~last.isValid /\ ~last.threw)
              => Shown = Str(Evaluated.attrs["data-error-message"])

\* a rule that carries its own message failed on a field with a custom
\* message, and the custom message is shown
C22Witness ==
    /\ C21Case
    /\ hasAttribute(Evaluated, "data-error-message")
    /\ ~last.isValid /\ ~last.threw
    /\ last.calls # <<>>
    /\ Truthy(Get(DeclaredRules[Len(last.calls)], "errorMessage"))
    /\ Shown = Str(<<"Oops">>)

\* the value of attribute a of the evaluated control
AttrOf(a) == Evaluated.attrs[a]

\* catalog entry k with its placeholders replaced by lo and hi
Template(k, lo, hi) == Replace(Replace(Get(messages, k), "{0}", lo), "{1}", hi)

\* the attribute-driven length step ran on a control without a custom
\* message
C23Case ==
    /\ pc = "bound" /\ last.op = "validateField"
    /\ ~Has("data-error-message")

\* C23: in the attribute-driven length step the message variant follows
\* the source of the bound that was applied: a failing minimum check
\* shows the min template iff the bound was taken from the min attribute
\* and the minlength template when it was taken from minlength; likewise
\* max and maxlength; the combined check shows range iff both bounds
\* were taken from min and max, else rangelength.
C23MessageFollowsSource ==
    C23Case =>
        \A k \in 1..Len(last.steps) :
            LET step == last.steps[k]
                lo == IF Has("minlength") THEN AttrOf("minlength") ELSE AttrOf("min")
                hi == IF Has("maxlength") THEN AttrOf("maxlength") ELSE AttrOf("max")
            IN /\ (step.name = "minimum" /\ ~step.isValid) =>
                      step.errorMessage =
                          Template(IF Has("minlength") THEN "minlength" ELSE "min", lo, lo)
               /\ (step.name = "maximum" /\ ~step.isValid) =>
                      step.errorMessage =
                          Template(IF Has("maxlength") THEN "maxlength" ELSE "max", hi, hi)
               /\ (step.name = "range" /\ ~step.isValid) =>
                      step.errorMessage =
                          Template(IF ~Has("minlength") /\ ~Has("maxlength")
                                   THEN "range" ELSE "rangelength", lo, hi)

\* the control has minlength and min and no upper bound, its minimum
\* check applied the bound of minlength and failed, and the message shown
\* is the min template
C23MinTemplateForMinlength ==
    /\ C23Case
    /\ Has("minlength") /\ Has("min") /\ ~Has("maxlength") /\ ~Has("max")
    /\ ~last.isValid
    /\ last.steps[Len(last.steps)].name = "minimum"
    /\ Shown = Template("min", AttrOf("minlength"), AttrOf("minlength"))

\* a control without attributes that holds a value has been evaluated
\* under one declared rule
C24Case ==
    /\ pc = "bound" /\ last.op = "validateField"
    /\ Evaluated.value # <<>>
    /\ Len(DeclaredRules) = 1

\* C24: a declared rangelength rule with parameters min and max, on a
\* non-empty value that passed all earlier steps, makes the verdict true
\* iff min <= getLength(value, field) <= max, for every pair of
\* non-negative parameters, 0 included; a declared minlength rule
\* enforces length >= min and a declared maxlength rule length <= max.
C24ParametricRules ==
    C24Case =>
        LET rule == DeclaredRules[1]
            length == getLength(Evaluated.value, Evaluated, fields)
        IN /\ Get(rule, "method") = Str(<<"rangelength">>) =>
                 last.isValid = (/\ NumGE(length, Get(rule, "min"))
                                 /\ NumLE(length, Get(rule, "max")))
           /\ Get(rule, "method") = Str(<<"minlength">>) =>
                 last.isValid = NumGE(length, Get(rule, "min"))
           /\ Get(rule, "method") = Str(<<"maxlength">>) =>
                 last.isValid = NumLE(length, Get(rule, "max"))

\* a rangelength rule with min 0 and max 2 was declared and a text value
\* of three characters was found valid
C24ZeroSkipsRule ==
    /\ C24Case
    /\ DeclaredRules[1] = Obj([method |-> Str(<<"rangelength">>), min |-> Num(0), max |-> Num(2)])
    /\ Evaluated.type = "text"
    /\ Evaluated.value = <<"a", "b", "c">>
    /\ last.isValid
    /\ last.steps = <<>>

\* a date input that holds a value has been evaluated: validDate was
\* called on it
C25Case ==
    /\ pc = "bound" /\ last.op = "validateField"
    /\ Evaluated.type = "date"
    /\ Evaluated.value # <<>>
    /\ last.steps # <<>> /\ last.steps[1].name = "date"

\* attribute a holds a date that parses
Bounded(a) ==
    /\ Has(a) /\ AttrOf(a) # <<>>
    /\ DateParse(AttrOf(a)).t = "number"

\* C25: validDate(field) is true iff the value parses as a date (every
\* value for which Date.parse yields a number, the timestamp 0 included)
\* and, for each of min and max that is present, non-empty and
\* parseable, the parsed value is >= min and <= max; an absent, empty or
\* unparseable bound leaves that side unbounded.
C25ValidDate ==
    C25Case =>
        LET value == DateParse(Evaluated.value)
        IN /\ validDate(Evaluated) = last.steps[1].isValid
           /\ last.steps[1].isValid =
                 (/\ value.t = "number"
                  /\ Bounded("min") => value.v >= DateParse(AttrOf("min")).v
                  /\ Bounded("max") => value.v <= DateParse(AttrOf("max")).v)

\* the value 1970-01-01, whose timestamp is 0, on an input without bounds
\* was found invalid
C25EpochRejected ==
    /\ C25Case
    /\ Evaluated.value = Epoch
    /\ ~Has("min") /\ ~Has("max")
    /\ DateParse(Evaluated.value) = Num(0)
    /\ ~last.isValid
    /\ Shown = Get(messages, "date")

\* the selector of the equalTo rule declared for the second control
C26Target == Get(RulesFor(settings, IdMail)[1], "field")

\* the rule has a selector that resolves to no control of the form
C26NotApplicable ==
    /\ Truthy(C26Target)
    /\ \/ ~SelectorValid(C26Target.v)
       \/ FormQuerySelector(fields, C26Target.v) = 0

\* C26: validateField and validateForm never throw because of a
\* configuration error: a declared rule whose selector is malformed or
\* matches no field, and a field whose id or name makes the error-node
\* selector malformed, are treated as "rule not applicable" and the
\* verdict is what the remaining steps give (here true: the controls
\* have no other constraint).
C26NeverThrows ==
    (pc = "bound" /\ last.op \in {"validateField", "validateForm"}) =>
        /\ ~last.threw
        /\ (last.op = "validateField" /\ C26NotApplicable) => last.isValid

\* the rule's selector does not parse, the second control holds a value
\* and its evaluation ended by an exception
C26SelectorThrew ==
    /\ pc = "bound" /\ last.op = "validateField" /\ last.field = 2
    /\ C26Target = Str(SelBroken)
    /\ Evaluated.id = IdMail
    /\ Evaluated.value # <<>>
    /\ last.threw

\* the last custom predicate that the operation invoked threw
PredicateThrew(op) ==
    /\ op.calls # <<>>
    /\ LET c == op.calls[Len(op.calls)]
       IN PredicateOutcome(c.fn, c.value, fields[c.field]) = "throw"

\* C27: an exception thrown by a custom predicate is not caught: it
\* leaves validateField and, through it, validateForm and the submit
\* handling, so that the remaining tracked fields are not evaluated, the
\* error node of the current field is not updated, and neither
\* submitHandler nor the native submit is invoked.
C27PredicateExceptionPropagates ==
    [][(/\ pc = "bound"
        /\ last'.op \in {"validateField", "validateForm", "submit"}
        /\ PredicateThrew(last'))
       => LET thrower == last'.calls[Len(last'.calls)].field
              id == ErrorHelpId(fields[thrower])
          IN /\ last'.threw
             /\ id \in DOMAIN errorNodes' <=> id \in DOMAIN errorNodes
             /\ id \in DOMAIN errorNodes => errorNodes'[id] = errorNodes[id]
             /\ last'.op \in {"validateForm", "submit"} =>
                   /\ last'.visited = SubSeq(tracked, 1, Len(last'.visited))
                   /\ last'.visited[Len(last'.visited)] = thrower
                   /\ Len(last'.verdicts) = Len(last'.visited) - 1
             /\ last'.op = "submit" =>
                   last'.handlerCalls = 0 /\ last'.nativeCalls = 0]_vars

\* a submit with a submit handler configured ended by the exception of
\* the first control's predicate: the second control was not evaluated
\* and the handler was not called
C27Witness ==
    /\ pc = "bound" /\ last.op = "submit"
    /\ PredicateThrew(last)
    /\ last.threw
    /\ Truthy(Get(settings, "submitHandler"))
    /\ Len(tracked) = 2 /\ last.visited = <<1>>
    /\ last.handlerCalls = 0 /\ last.nativeCalls = 0

\* the controls, the evaluated one without its minlength and maxlength
\* and, unless it is a date input, without its min and max
WithoutLengthAttrs ==
    LET gone == IF Evaluated.type = "date" THEN {"minlength", "maxlength"}
                ELSE {"minlength", "maxlength", "min", "max"}
    IN [k \in 1..Len(fields) |->
           IF k = last.field
           THEN [fields[k] EXCEPT !.attrs = [a \in DOMAIN @ \ gone |-> @[a]]]
           ELSE fields[k]]

\* an input of one of the five types that holds a value has been evaluated
C28Case ==
    /\ pc = "bound" /\ last.op = "validateField"
    /\ Evaluated.type \in {"email", "tel", "url", "file", "date"}
    /\ Evaluated.value # <<>>

\* the evaluation gave the verdict and the message that the control
\* without its length attributes gets
C28SameWithoutLengthAttrs ==
    LET r == validateField(last.field, WithoutLengthAttrs, errorNodes, settings, messages)
    IN /\ r.threw = last.threw
       /\ r.isValid = last.isValid
       /\ r.errorMessage = last.message

C28NoLengthRuleFailed ==
    \A k \in 1..Len(last.steps) :
        last.steps[k].name \in {"rule-minlength", "rule-maxlength", "rule-rangelength"}
        => last.steps[k].isValid

WithoutAttr(a) ==
    [k \in 1..Len(fields) |->
        IF k = last.field
        THEN [fields[k] EXCEPT !.attrs = [b \in DOMAIN @ \ {a} |-> @[b]]]
        ELSE fields[k]]

\* the evaluation gave the verdict and the message that the control
\* without its attribute a gets
SameWithout(a) ==
    LET r == validateField(last.field, WithoutAttr(a), errorNodes, settings, messages)
    IN /\ r.isValid = last.isValid
       /\ r.errorMessage = last.message

C29Case == pc = "bound" /\ last.op = "validateField"

\* C29: a min, max, minlength or maxlength attribute whose value is not
\* all ASCII digits is treated as absent: the verdict and the message
\* equal those of the same field with that attribute removed (so a valid
\* fallback attribute on the same side still applies), and nothing is
\* thrown.
C29NonDigitsAsAbsent ==
    C29Case =>
        /\ ~last.threw
        /\ \A a \in {"minlength", "maxlength", "min", "max"} :
              (Has(a) /\ ~validDigits(AttrOf(a))) => SameWithout(a)

\* the control has a minlength that is not a number and min 3, holds two
\* characters and was found valid: the bound of min was not applied
C29FallbackLost ==
    /\ C29Case
    /\ Has("minlength") /\ ~validDigits(AttrOf("minlength"))
    /\ Has("min") /\ AttrOf("min") = <<"3">>
    /\ ~Has("maxlength") /\ ~Has("max")
    /\ Evaluated.value = <<"a", "b">>
    /\ last.isValid
    /\ last.steps = <<>>

\* a handling of a reset has ended: nothing is in progress, the form does
\* not carry the validFormClass and every control has its default value
ResetDone ==
    /\ Idle
    /\ ~Marked(settings, formClasses)
    /\ Pristine(fields)

\* C30: handling a reset always terminates: the listener calls resetForm,
\* resetForm calls the native reset(), which dispatches another reset
\* event to the same listener; the chain of re-entries is finite (it never
\* reaches the nesting bound of the model) and ends with the validFormClass
\* removed and the native field values reset.
C30ResetTerminates ==
    /\ [](Len(reset.stack) < MaxNesting)
    /\ (~Idle) ~> ResetDone

\* a reset button was activated on a marked form with a changed value;
\* resetForm was entered twice, the second time from inside reset(), and
\* the handling has ended with the class removed and the values reset
C30Witness ==
    /\ ResetDone
    /\ last.op = "reset"
    /\ reset.entries = 2
    /\ reset.hadClass
    /\ reset.dirty
    /\ ~reset.locked

====
